---- MODULE Spec2Model ----
(***************************************************************************)
(* A model of the chessmind engine: the board (squares, bitboards,         *)
(* incremental Zobrist hash, castling rights, en-passant target), the      *)
(* legal move generator, the Game driver, the transposition table and the  *)
(* root of the iterative-deepening search.                                 *)
(*                                                                         *)
(* Representation.  A u64 is the set of its one-bits (a subset of 0..63):  *)
(* XOR is symmetric difference, AND is intersection, OR is union.  A       *)
(* square (x, y) is stored at index y * 8 + x.  A string is a sequence of  *)
(* one-character strings ("e2" is <<"e", "2">>).  A packed Move is the u16 *)
(* the code builds.  Option::None of a piece is the record NoPiece, of a   *)
(* square pair the empty tuple.                                            *)
(***************************************************************************)
EXTENDS Integers, Sequences, FiniteSets, TLC

VARIABLES
    game,        \* Game: board, current_turn, history, hash_history, hash_counts, result
    legal,       \* the MoveList generate_moves_fast built for game.board and game.current_turn
    phase,       \* "game" while the caller owns the Game, "search" once best_move_single runs
    board,       \* the board the search mutates in place (a clone of game.board)
    side,        \* the colour to move on `board`
    moves,       \* the MoveList generate_moves_fast built for `board` and `side`
    stack,       \* the undo states of the moves made on `board` and not yet unmade
    nodes,       \* number of moves the search has made on `board` so far
    last,        \* the last operation: its name, inputs, result and the state it started from
    plies,       \* number of accepted Game::make_move calls after the opening
    script,      \* the opening the caller plays first: the inputs still to come
    tt,          \* Table: the RawEntry the keys of the model are mapped to, and the age
    engine,      \* Engine: its stop flag, time manager and the locals of best_move_single
    heap,        \* the AtomicBool cells allocated with Arc::new
    stopper,     \* the stop flag of a clone of the Engine, if one was made
    thr,         \* the threads calling Table::get and Table::store: position and locals
    done         \* the Table::store calls begun and the Table::get calls returned

boardVars == <<game, legal, phase, board, side, moves, stack, nodes, last, plies, script>>
engineVars == <<tt, engine, heap, stopper>>
tableVars == <<thr, done>>

vars == <<boardVars, engineVars, tableVars>>

-----------------------------------------------------------------------------
(* Bounds of the model *)

MaxPlies == 1
MaxStack == 1
MaxNodes == 1
MaxDepth == 2
MaxSearches == 2
MaxPriors == 1
MaxRootMoves == 2
MaxStores == 2
MaxGets == 2
MaxThreads == 2
MaxAges == 7

-----------------------------------------------------------------------------
(* pieces.rs *)

White == "White"
Black == "Black"
Color == {White, Black}

Pawn == "Pawn"
Knight == "Knight"
Bishop == "Bishop"
Rook == "Rook"
Queen == "Queen"
King == "King"
PieceType == {Pawn, Knight, Bishop, Rook, Queen, King}

Piece(pt, c) == [piece_type |-> pt, color |-> c]
NoPiece == [piece_type |-> "None", color |-> "None"]
is_some(p) == p # NoPiece
is_none(p) == p = NoPiece

NoneSq == <<>>

opposite(c) == IF c = White THEN Black ELSE White

color_idx(c) == IF c = White THEN 0 ELSE 1

piece_index(pt) ==
    CASE pt = Pawn -> 0
      [] pt = Knight -> 1
      [] pt = Bishop -> 2
      [] pt = Rook -> 3
      [] pt = Queen -> 4
      [] pt = King -> 5

piece_type_from_idx(idx) ==
    CASE idx = 0 -> Pawn
      [] idx = 1 -> Knight
      [] idx = 2 -> Bishop
      [] idx = 3 -> Rook
      [] idx = 4 -> Queen
      [] OTHER -> King

-----------------------------------------------------------------------------
(* 64-bit words as sets of bit positions *)

\* Then(first, rest) is rest, computed once first has been computed: the steps of a loop run
\* one after the other
Then(first, rest) == IF first = first THEN rest ELSE rest

\* a function in enumerated form: every index carries its own value, so that
\* an assignment to one element is an array store
Array(f) == f @@ f

Xor(a, b) == (a \ b) \cup (b \ a)
Shr(a, n) == {i - n : i \in {j \in a : j >= n}}
Shl(a, n) == {i + n : i \in {j \in a : j + n <= 63}}

Pow2 == [i \in 0..8 |-> CASE i = 0 -> 1 [] i = 1 -> 2 [] i = 2 -> 4 [] i = 3 -> 8
                          [] i = 4 -> 16 [] i = 5 -> 32 [] i = 6 -> 64 [] i = 7 -> 128
                          [] OTHER -> 256]

\* f[0] + ... + f[n]
RECURSIVE SumTo(_, _)
SumTo(f, n) == IF n < 0 THEN 0 ELSE f[n] + SumTo(f, n - 1)

\* the eight bytes of a word, least significant first, and back
ToBytes(a) ==
    [k \in 0..7 |-> SumTo([i \in 0..7 |-> IF (8 * k + i) \in a THEN Pow2[i] ELSE 0], 7)]
FromBytes(b) ==
    {n \in 0..63 : ((b[n \div 8] \div Pow2[n % 8]) % 2) = 1}

\* column k of the schoolbook product of two byte strings, plus the carry
MulColumn(a, b, k, carry) == carry + SumTo([i \in 0..k |-> a[i] * b[k - i]], k)

\* u64::wrapping_mul, schoolbook on bytes, the carry running upward, bytes above
\* the eighth dropped; s is the column sum of byte k
RECURSIVE MulBytes(_, _, _, _)
MulBytes(a, b, k, s) ==
    IF k = 7 THEN <<s % 256>>
    ELSE <<s % 256>> \o MulBytes(a, b, k + 1, MulColumn(a, b, k + 1, s \div 256))

MulWord(a, b) == MulBytes(a, b, 0, MulColumn(a, b, 0, 0))

\* the product's bytes are numbered from 1, a word's from 0
BytesOf(t) == [k \in 0..7 |-> t[k + 1]]

wrapping_mul(a, b) == FromBytes(BytesOf(MulWord(ToBytes(a), ToBytes(b))))

-----------------------------------------------------------------------------
(* transposition.rs: the Zobrist keys *)

\* 0xcbf29ce484222325
ZobristSeed == FromBytes([k \in 0..7 |-> <<37, 35, 34, 132, 228, 156, 242, 203>>[k + 1]])
\* 0x2545F4914F6CDD1D
ZobristMul == FromBytes([k \in 0..7 |-> <<29, 221, 108, 79, 145, 244, 69, 37>>[k + 1]])
\* 0x9d39247e33776d41
ZOBRIST_SIDE == FromBytes([k \in 0..7 |-> <<65, 109, 119, 51, 126, 36, 57, 157>>[k + 1]])

ZobristStep(seed) ==
    LET s1 == Xor(seed, Shr(seed, 12))
        s2 == Xor(s1, Shl(s1, 25))
        s3 == Xor(s2, Shr(s2, 27))
    IN  wrapping_mul(s3, ZobristMul)

\* the first n values the generator gives from `seed`, in order (n is halved
\* so that the steps nest no deeper than its logarithm)
RECURSIVE ZobristRun(_, _)
ZobristRun(seed, n) ==
    IF n = 1 THEN <<ZobristStep(seed)>>
    ELSE LET left == ZobristRun(seed, n \div 2)
         IN  Then(left, left \o ZobristRun(left[Len(left)], n - n \div 2))

\* the 2 * 6 * 64 keys in the order the loops fill them: c, then p, then square
ZobristTable == ZobristRun(ZobristSeed, 768)

ZOBRIST(c, p, s) == ZobristTable[(c * 6 + p) * 64 + s + 1]

-----------------------------------------------------------------------------
(* board.rs: squares, strings and the empty board *)

Idx(x, y) == y * 8 + x
XOf(sq) == sq % 8
YOf(sq) == sq \div 8

Files == <<"a", "b", "c", "d", "e", "f", "g", "h">>
Ranks == <<"1", "2", "3", "4", "5", "6", "7", "8">>

\* position of a character in a..h or 1..8, counted from 0; 8 when it is not one
CharIdx(chars, ch) ==
    IF \E i \in 1..8 : chars[i] = ch THEN (CHOOSE i \in 1..8 : chars[i] = ch) - 1 ELSE 8

\* Some((x, y)) as <<x, y>>, None as the empty tuple
algebraic_to_index(pos) ==
    IF Len(pos) # 2 THEN NoneSq
    ELSE LET x == CharIdx(Files, pos[1])
             y == CharIdx(Ranks, pos[2])
         IN  IF x = 8 \/ y = 8 THEN NoneSq ELSE <<x, y>>

index_to_algebraic(x, y) ==
    IF x < 8 /\ y < 8 THEN <<Files[x + 1], Ranks[y + 1]>> ELSE NoneSq

inside(x, y) == x >= 0 /\ x < 8 /\ y >= 0 /\ y < 8

sq_mask(x, y) == {y * 8 + x}

EmptySquares == Array([sq \in 0..63 |-> NoPiece])
EmptyBitboards == Array([c \in 0..1 |-> Array([p \in 0..5 |-> {}])])

\* the Board struct; an assignment to one field builds the struct anew
Board(sq, bb, h, ep, ca) ==
    [squares |-> sq, bitboards |-> bb, hash |-> h, en_passant |-> ep, castling |-> ca]

SetCastling(b, ca) == Board(b.squares, b.bitboards, b.hash, b.en_passant, ca)
SetEnPassant(b, ep) == Board(b.squares, b.bitboards, b.hash, ep, b.castling)
SetHash(b, h) == Board(b.squares, b.bitboards, h, b.en_passant, b.castling)

AllCastling == Array([c \in 0..1 |-> Array([s \in 0..1 |-> TRUE])])
NoCastling == Array([k \in 0..1 |-> FALSE])

BoardNew == Board(EmptySquares, EmptyBitboards, {}, NoneSq, AllCastling)

get_index(b, x, y) == b.squares[Idx(x, y)]

\* A faulty first half of set_index that leaves the old piece in its bitboard
\* and in the hash.
KeepPiece(b, x, y, old) == b

\* set_index, first half: the piece standing on (x, y) leaves its bitboard and
\* the hash
TakePiece(b, x, y, old) ==
    IF is_some(old)
    THEN Board(b.squares,
               [b.bitboards EXCEPT ![color_idx(old.color)][piece_index(old.piece_type)]
                                       = @ \ sq_mask(x, y)],
               Xor(b.hash, ZOBRIST(color_idx(old.color), piece_index(old.piece_type),
                                   y * 8 + x)),
               b.en_passant, b.castling)
    ELSE b

\* set_index, second half: the square is written, and a piece enters its
\* bitboard and the hash
PutPiece(b, x, y, piece) ==
    IF is_some(piece)
    THEN Board([b.squares EXCEPT ![Idx(x, y)] = piece],
               [b.bitboards EXCEPT ![color_idx(piece.color)][piece_index(piece.piece_type)]
                                       = @ \cup sq_mask(x, y)],
               Xor(b.hash, ZOBRIST(color_idx(piece.color), piece_index(piece.piece_type),
                                   y * 8 + x)),
               b.en_passant, b.castling)
    ELSE Board([b.squares EXCEPT ![Idx(x, y)] = piece], b.bitboards, b.hash,
               b.en_passant, b.castling)

set_index(b, x, y, piece) ==
    PutPiece(TakePiece(b, x, y, b.squares[Idx(x, y)]), x, y, piece)

BackRank == <<Rook, Knight, Bishop, Queen, King, Bishop, Knight, Rook>>

\* the ranks and colours of the four set_index calls of one round of the loop
SetupRank == <<0, 7, 1, 6>>

\* the k-th set_index call of the loop, k = 0..31: round k \div 4 is file x
SetupCall(b, k) ==
    set_index(b, k \div 4, SetupRank[(k % 4) + 1],
              Piece(IF k % 4 < 2 THEN BackRank[k \div 4 + 1] ELSE Pawn,
                    IF k % 2 = 0 THEN White ELSE Black))

\* the calls lo..hi in order (the range is halved so that the calls nest no
\* deeper than its logarithm)
RECURSIVE SetupCalls(_, _, _)
SetupCalls(b, lo, hi) ==
    Then(b.hash,
         IF lo = hi THEN SetupCall(b, lo)
         ELSE SetupCalls(SetupCalls(b, lo, (lo + hi) \div 2), (lo + hi) \div 2 + 1, hi))

setup_standard(b) ==
    SetCastling(
        SetEnPassant(
            SetupCalls(Board(EmptySquares, EmptyBitboards, {}, b.en_passant, b.castling), 0, 31),
            NoneSq),
        AllCastling)

\* Board::hash(side): the side key is XORed in when White is to move
BoardHash(b, c) == IF c = White THEN Xor(b.hash, ZOBRIST_SIDE) ELSE b.hash

\* the inner loop of recompute_hash: while bb != 0, XOR the key of the lowest
\* set bit into h and clear that bit
RECURSIVE HashBits(_, _, _, _)
HashBits(h, c, p, bb) ==
    IF bb = {} THEN h
    ELSE LET sq == CHOOSE s \in bb : \A t \in bb : s <= t
         IN  HashBits(Xor(h, ZOBRIST(c, p, sq)), c, p, bb \ {sq})

\* the outer loops: bitboard k = color * 6 + piece, for k up to n
RECURSIVE HashBoards(_, _)
HashBoards(b, n) ==
    IF n < 0 THEN {}
    ELSE HashBits(HashBoards(b, n - 1), n \div 6, n % 6, b.bitboards[n \div 6][n % 6])

\* Board::recompute_hash: the XOR of the keys of all set bits of all bitboards
RecomputedHash(b) == HashBoards(b, 11)

recompute_hash(b) == SetHash(b, RecomputedHash(b))

-----------------------------------------------------------------------------
(* board.rs: make_move_state / unmake_move, the string-keyed make and unmake *)

NoMoveState == [none |-> TRUE]

Abs(n) == IF n < 0 THEN -n ELSE n

\* [state, board]: state is NoMoveState when the code returns None
NoMove(b) == [state |-> NoMoveState, board |-> b]

MoveState(sx, sy, ex, ey, captured, captured_sq, prev_ep, prev_castling, rook_move) ==
    [start |-> <<sx, sy>>, end |-> <<ex, ey>>,
     captured |-> captured, captured_sq |-> captured_sq,
     prev_en_passant |-> prev_ep, prev_castling |-> prev_castling,
     rook_move |-> rook_move]

\* set_index(ex, ey, Some(piece)); set_index(sx, sy, None)
MovePiece(b, sx, sy, ex, ey, piece) ==
    set_index(set_index(b, ex, ey, piece), sx, sy, NoPiece)

\* rook_move: a king moving two files to file g or file c takes the rook along
RookMove(piece, sx, sy, ex) ==
    IF piece.piece_type = King /\ Abs(sx - ex) = 2 /\ ex = 6
    THEN <<<<7, sy>>, <<5, sy>>>>
    ELSE IF piece.piece_type = King /\ Abs(sx - ex) = 2 /\ ex = 2
    THEN <<<<0, sy>>, <<3, sy>>>>
    ELSE NoneSq

\* castling[c][k] = false when cond
ClearRight(ca, c, k, cond) == IF cond THEN [ca EXCEPT ![c][k] = FALSE] ELSE ca

\* match piece.piece_type: a king loses both rights, a rook leaving file a or
\* file h the right of that side
MoverRights(ca, pt, cidx, sx) ==
    IF pt = King THEN [ca EXCEPT ![cidx] = NoCastling]
    ELSE IF pt = Rook
    THEN ClearRight(ClearRight(ca, cidx, 1, sx = 0), cidx, 0, sx = 7)
    ELSE ca

StateCastling(ca, piece, sx) ==
    MoverRights(ca, piece.piece_type, color_idx(piece.color), sx)

\* the rook of a castling move goes from rm[1] to rm[2]
StateRook(b, rm) ==
    IF rm # NoneSq
    THEN MovePiece(b, rm[1][1], rm[1][2], rm[2][1], rm[2][2],
                   get_index(b, rm[1][1], rm[1][2]))
    ELSE b

PawnDir(color) == IF color = White THEN 1 ELSE -1

\* self.en_passant after the move: the square a double push passes over
StateEnPassant(b, piece, sx, sy, ex, ey) ==
    IF /\ piece.piece_type = Pawn
       /\ sy + 2 * PawnDir(piece.color) = ey
       /\ sx = ex
       /\ is_none(get_index(b, ex, ey))
    THEN <<sx, sy + PawnDir(piece.color)>>
    ELSE NoneSq

\* a pawn arriving on the previous en-passant square, the square being empty
StateIsEp(b, piece, prev_ep, ex, ey) ==
    /\ piece.piece_type = Pawn
    /\ prev_ep # NoneSq
    /\ ex = prev_ep[1] /\ ey = prev_ep[2]
    /\ is_none(get_index(b, ex, ey))

\* the last part of make_move_state: b is the board the call began with, b3
\* the board after the castling rights, the rook and en_passant were written
StateFinish(b, b3, piece, sx, sy, ex, ey, rm) ==
    IF StateIsEp(b3, piece, b.en_passant, ex, ey)
    THEN [state |-> MoveState(sx, sy, ex, ey,
                              get_index(b3, ex, ey - PawnDir(piece.color)),
                              <<ex, ey - PawnDir(piece.color)>>,
                              b.en_passant, b.castling, rm),
          board |-> MovePiece(set_index(b3, ex, ey - PawnDir(piece.color), NoPiece),
                              sx, sy, ex, ey, piece)]
    ELSE [state |-> MoveState(sx, sy, ex, ey, get_index(b, ex, ey),
                              IF is_some(get_index(b, ex, ey)) THEN <<ex, ey>> ELSE NoneSq,
                              b.en_passant, b.castling, rm),
          board |-> MovePiece(b3, sx, sy, ex, ey, piece)]

\* b2 is the board after the match on the piece type
StateAfterMatch(b, b2, piece, sx, sy, ex, ey, rm) ==
    StateFinish(b, SetEnPassant(b2, StateEnPassant(b2, piece, sx, sy, ex, ey)),
                piece, sx, sy, ex, ey, rm)

StateAt(b, piece, sx, sy, ex, ey) ==
    IF is_none(piece) THEN NoMove(b)
    ELSE StateAfterMatch(b,
             StateRook(SetCastling(b, StateCastling(b.castling, piece, sx)),
                       RookMove(piece, sx, sy, ex)),
             piece, sx, sy, ex, ey, RookMove(piece, sx, sy, ex))

StateSquares(b, s, e) ==
    IF s = NoneSq \/ e = NoneSq THEN NoMove(b)
    ELSE StateAt(b, get_index(b, s[1], s[2]), s[1], s[2], e[1], e[2])

make_move_state(b, start, end) ==
    StateSquares(b, algebraic_to_index(start), algebraic_to_index(end))

\* if let Some((cx, cy)) = state.captured_sq
UnmakeCaptured(b, state) ==
    IF state.captured_sq # NoneSq
    THEN set_index(b, state.captured_sq[1], state.captured_sq[2], state.captured)
    ELSE b

\* if let Some(((rsx, rsy), (rex, rey))) = state.rook_move
UnmakeRook(b, rm) ==
    IF rm # NoneSq
    THEN MovePiece(b, rm[2][1], rm[2][2], rm[1][1], rm[1][2],
                   get_index(b, rm[2][1], rm[2][2]))
    ELSE b

unmake_move(b, state) ==
    SetCastling(
        SetEnPassant(
            UnmakeRook(
                UnmakeCaptured(
                    MovePiece(b, state.end[1], state.end[2],
                              state.start[1], state.start[2],
                              get_index(b, state.end[1], state.end[2])),
                    state),
                state.rook_move),
            state.prev_en_passant),
        state.prev_castling)

-----------------------------------------------------------------------------
(* board.rs: pseudo-legal targets of one piece, attack tests, is_legal *)

KnightDirs == {<<-2, -1>>, <<-2, 1>>, <<-1, -2>>, <<-1, 2>>,
               <<1, -2>>, <<1, 2>>, <<2, -1>>, <<2, 1>>}
KingDirs == {<<-1, -1>>, <<-1, 0>>, <<-1, 1>>, <<0, -1>>,
             <<0, 1>>, <<1, -1>>, <<1, 0>>, <<1, 1>>}
BishopDirs == {<<-1, -1>>, <<-1, 1>>, <<1, -1>>, <<1, 1>>}
RookDirs == {<<0, 1>>, <<0, -1>>, <<1, 0>>, <<-1, 0>>}

\* the squares add_ray pushes, walking from (x, y) in direction (dx, dy): the
\* empty squares up to the first piece, and that piece's square when it is an
\* enemy's
add_ray(b, x, y, dx, dy, color) ==
    {index_to_algebraic(x + k * dx, y + k * dy) :
        k \in {n \in 1..7 :
                 /\ inside(x + n * dx, y + n * dy)
                 /\ \A j \in 1..(n - 1) : is_none(get_index(b, x + j * dx, y + j * dy))
                 /\ LET p == get_index(b, x + n * dx, y + n * dy)
                    IN  is_none(p) \/ p.color # color}}

\* the one-step targets of a knight or a king: empty or enemy squares
StepTargets(b, x, y, dirs, color) ==
    {index_to_algebraic(x + d[1], y + d[2]) :
        d \in {e \in dirs : /\ inside(x + e[1], y + e[2])
                            /\ LET t == get_index(b, x + e[1], y + e[2])
                               IN  is_none(t) \/ t.color # color}}

Rays(b, x, y, dirs, color) ==
    UNION {add_ray(b, x, y, d[1], d[2], color) : d \in dirs}

\* the king's targets: its steps, and the castling squares while the right is
\* held and the squares between king and rook are empty
KingTargets(b, x, y, color, rank) ==
    StepTargets(b, x, y, KingDirs, color)
    \cup (IF /\ b.castling[color_idx(color)][0]
             /\ is_none(get_index(b, 5, rank))
             /\ is_none(get_index(b, 6, rank))
          THEN {index_to_algebraic(6, rank)} ELSE {})
    \cup (IF /\ b.castling[color_idx(color)][1]
             /\ is_none(get_index(b, 1, rank))
             /\ is_none(get_index(b, 2, rank))
             /\ is_none(get_index(b, 3, rank))
          THEN {index_to_algebraic(2, rank)} ELSE {})

\* a pawn's diagonal target: an enemy piece, or the empty en-passant square
PawnTakes(b, nx, ny, color) ==
    /\ inside(nx, ny)
    /\ IF is_some(get_index(b, nx, ny)) THEN get_index(b, nx, ny).color # color
       ELSE b.en_passant = <<nx, ny>>

\* the pawn's targets; ny is the rank ahead, ny2 the rank after it
PawnTargets(b, x, y, color, ny, ny2, start_rank) ==
    (IF inside(x, ny) /\ is_none(get_index(b, x, ny))
     THEN {index_to_algebraic(x, ny)} ELSE {})
    \cup (IF /\ inside(x, ny) /\ is_none(get_index(b, x, ny))
             /\ y = start_rank
             /\ inside(x, ny2)
             /\ is_none(get_index(b, x, ny2))
          THEN {index_to_algebraic(x, ny2)} ELSE {})
    \cup {index_to_algebraic(nx, ny) :
            nx \in {n \in {x - 1, x + 1} : PawnTakes(b, n, ny, color)}}

PieceTargets(b, x, y, color, pt) ==
    CASE pt = Knight -> StepTargets(b, x, y, KnightDirs, color)
      [] pt = Bishop -> Rays(b, x, y, BishopDirs, color)
      [] pt = Rook -> Rays(b, x, y, RookDirs, color)
      [] pt = Queen -> Rays(b, x, y, BishopDirs \cup RookDirs, color)
      [] pt = King -> KingTargets(b, x, y, color, IF color = White THEN 0 ELSE 7)
      [] pt = Pawn -> PawnTargets(b, x, y, color, y + PawnDir(color),
                                  y + 2 * PawnDir(color),
                                  IF color = White THEN 1 ELSE 6)

PseudoPiece(b, x, y, piece) ==
    IF is_none(piece) THEN {} ELSE PieceTargets(b, x, y, piece.color, piece.piece_type)

PseudoAt(b, s) ==
    IF s = NoneSq THEN {} ELSE PseudoPiece(b, s[1], s[2], get_index(b, s[1], s[2]))

\* the strings pseudo_legal_moves returns, as a set (the callers only test
\* membership or iterate over all of them)
pseudo_legal_moves(b, pos) == PseudoAt(b, algebraic_to_index(pos))

\* some piece of by_color has (x, y) among its pseudo-legal targets
square_attacked(b, x, y, by_color) ==
    \E sq \in 0..63 :
        /\ is_some(b.squares[sq])
        /\ b.squares[sq].color = by_color
        /\ \E m \in pseudo_legal_moves(b, index_to_algebraic(XOf(sq), YOf(sq))) :
              algebraic_to_index(m) = <<x, y>>

\* the first square of a set in the scan y = 0..7, x = 0..7; None when empty
FirstSquare(ks) ==
    IF ks = {} THEN NoneSq
    ELSE <<XOf(CHOOSE sq \in ks : \A t \in ks : sq <= t),
           YOf(CHOOSE sq \in ks : \A t \in ks : sq <= t)>>

find_king(b, color) ==
    FirstSquare({sq \in 0..63 : b.squares[sq] = Piece(King, color)})

InCheckAt(b, k, color) ==
    IF k = NoneSq THEN FALSE ELSE square_attacked(b, k[1], k[2], opposite(color))

in_check(b, color) == InCheckAt(b, find_king(b, color), color)

\* [ret, board]: is_legal takes the board by mutable reference, makes the move
\* and unmakes it; `board` is the board it leaves behind
Refused(b) == [ret |-> FALSE, board |-> b]

\* if let Some(state) = self.make_move_state(start, end)
LegalMade(made, color) ==
    IF made.state = NoMoveState THEN Refused(made.board)
    ELSE [ret |-> ~in_check(made.board, color),
          board |-> unmake_move(made.board, made.state)]

\* the squares the while loop of a castling move tests: from sx + step up to,
\* not including, ex
CastleBetween(sx, ex) ==
    IF ex > sx THEN (sx + 1)..(ex - 1) ELSE (ex + 1)..(sx - 1)

LegalAt(b, start, end, color, sx, sy, ex, ey, piece, dest) ==
    IF is_none(piece) THEN Refused(b)
    ELSE IF piece.color # color THEN Refused(b)
    ELSE IF is_some(dest) /\ dest.color = color THEN Refused(b)
    ELSE IF /\ piece.piece_type = King /\ Abs(sx - ex) = 2
            /\ \/ in_check(b, color)
               \/ \E x \in CastleBetween(sx, ex) :
                      square_attacked(b, x, sy, opposite(color))
    THEN Refused(b)
    ELSE LegalMade(make_move_state(b, start, end), color)

LegalSquares(b, start, end, color, s, e) ==
    IF s = NoneSq \/ e = NoneSq THEN Refused(b)
    ELSE LegalAt(b, start, end, color, s[1], s[2], e[1], e[2],
                 get_index(b, s[1], s[2]), get_index(b, e[1], e[2]))

is_legal(b, start, end, color) ==
    LegalSquares(b, start, end, color, algebraic_to_index(start), algebraic_to_index(end))

-----------------------------------------------------------------------------
(* types.rs: the packed Move and the UndoState *)

FLAG_NORMAL == 0
FLAG_DOUBLE_PUSH == 1
FLAG_KING_CASTLE == 2
FLAG_QUEEN_CASTLE == 3
FLAG_CAPTURE == 4
FLAG_EP_CAPTURE == 5
FLAG_PROMO_KNIGHT == 8
FLAG_PROMO_BISHOP == 9
FLAG_PROMO_ROOK == 10
FLAG_PROMO_QUEEN == 11
FLAG_PROMO_KNIGHT_CAP == 12
FLAG_PROMO_QUEEN_CAP == 15

NO_CAPTURE == 6
NO_EP == 64

\* Move::new: flags in bits 12..15, to in bits 6..11, from in bits 0..5
MoveNew(from, to, flags) == (flags % 16) * 4096 + (to % 64) * 64 + (from % 64)

MovePromotion(from, to, pt, is_cap) ==
    LET base_flag == CASE pt = Knight -> FLAG_PROMO_KNIGHT
                       [] pt = Bishop -> FLAG_PROMO_BISHOP
                       [] pt = Rook -> FLAG_PROMO_ROOK
                       [] OTHER -> FLAG_PROMO_QUEEN
    IN  MoveNew(from, to, IF is_cap THEN base_flag + 4 ELSE base_flag)

from_sq(m) == m % 64
to_sq(m) == (m \div 64) % 64
flags(m) == (m \div 4096) % 16

is_capture(m) ==
    flags(m) = FLAG_CAPTURE \/ flags(m) = FLAG_EP_CAPTURE \/ flags(m) >= FLAG_PROMO_KNIGHT_CAP
is_promotion(m) == flags(m) >= FLAG_PROMO_KNIGHT
is_ep(m) == flags(m) = FLAG_EP_CAPTURE
is_castle(m) == flags(m) = FLAG_KING_CASTLE \/ flags(m) = FLAG_QUEEN_CASTLE
is_double_push(m) == flags(m) = FLAG_DOUBLE_PUSH

\* Some(piece type) or "None"
promotion_piece(m) ==
    LET f == flags(m)
    IN  CASE f = 8 \/ f = 12 -> Knight
          [] f = 9 \/ f = 13 -> Bishop
          [] f = 10 \/ f = 14 -> Rook
          [] f = 11 \/ f = 15 -> Queen
          [] OTHER -> "None"

has_capture(state) == state.captured # NO_CAPTURE

-----------------------------------------------------------------------------
(* board.rs: make_move_fast / unmake_move_fast, the packed make and unmake *)

pack_castling(b) ==
    (IF b.castling[0][0] THEN 1 ELSE 0) + (IF b.castling[0][1] THEN 2 ELSE 0)
    + (IF b.castling[1][0] THEN 4 ELSE 0) + (IF b.castling[1][1] THEN 8 ELSE 0)

unpack_castling(b, c) ==
    SetCastling(b, Array([ci \in 0..1 |-> Array([s \in 0..1 |->
        IF ci = 0 THEN (IF s = 0 THEN c % 2 = 1 ELSE (c \div 2) % 2 = 1)
        ELSE (IF s = 0 THEN (c \div 4) % 2 = 1 ELSE (c \div 8) % 2 = 1)])]))

\* self.en_passant.map(|(x, y)| (y * 8 + x) as u8).unwrap_or(UndoState::NO_EP)
PackEp(ep) == IF ep = NoneSq THEN NO_EP ELSE ep[2] * 8 + ep[1]

\* the rank of the pawn an en-passant capture removes
EpCapY(color, to_y) == IF color = White THEN to_y - 1 ELSE to_y + 1

\* captured_piece_idx
FastCaptured(b, mv, color, to_x, to_y) ==
    IF is_ep(mv) THEN piece_index(get_index(b, to_x, EpCapY(color, to_y)).piece_type)
    ELSE IF is_some(get_index(b, to_x, to_y))
    THEN piece_index(get_index(b, to_x, to_y).piece_type)
    ELSE NO_CAPTURE

FastUndo(b, mv, color, to_x, to_y) ==
    [mv |-> mv,
     captured |-> FastCaptured(b, mv, color, to_x, to_y),
     captured_sq |-> IF is_ep(mv) THEN EpCapY(color, to_y) * 8 + to_x ELSE to_sq(mv),
     prev_ep |-> PackEp(b.en_passant),
     prev_castling |-> pack_castling(b),
     prev_hash |-> b.hash]

\* if mv.is_ep(): the captured pawn leaves the board
FastEpRemove(b, mv, color, to_x, to_y) ==
    IF is_ep(mv) THEN set_index(b, to_x, EpCapY(color, to_y), NoPiece) ELSE b

\* if captured.is_some(): a capture on a corner of the opponent's back rank
\* clears the opponent's right of that side
CornerRights(ca, opp, to_x, to_y, captured) ==
    IF is_some(captured)
    THEN ClearRight(
             ClearRight(ca, opp, 1,
                        /\ to_x = 0 /\ (to_y = 0 \/ to_y = 7)
                        /\ to_y = (IF opp = 0 THEN 0 ELSE 7)),
             opp, 0,
             /\ to_x = 7 /\ (to_y = 0 \/ to_y = 7)
             /\ to_y = (IF opp = 0 THEN 0 ELSE 7))
    ELSE ca

\* if mv.is_castle(): the rook goes to the king's other side
FastRook(b, mv, rank) ==
    IF is_castle(mv)
    THEN IF flags(mv) = FLAG_KING_CASTLE
         THEN MovePiece(b, 7, rank, 5, rank, get_index(b, 7, rank))
         ELSE MovePiece(b, 0, rank, 3, rank, get_index(b, 0, rank))
    ELSE b

\* self.en_passant after the move
FastEnPassant(mv, color, from_x, from_y) ==
    IF is_double_push(mv)
    THEN <<from_x, IF color = White THEN from_y + 1 ELSE from_y - 1>>
    ELSE NoneSq

\* a promotion puts the promotion piece on the target square
FastMoving(mv, color, piece) ==
    IF promotion_piece(mv) # "None" THEN Piece(promotion_piece(mv), color) ELSE piece

FastBoard(b, mv, color, from_x, from_y, to_x, to_y, piece, captured) ==
    MovePiece(
        SetEnPassant(
            FastRook(
                SetCastling(
                    FastEpRemove(b, mv, color, to_x, to_y),
                    CornerRights(
                        MoverRights(b.castling, piece.piece_type, color_idx(color), from_x),
                        1 - color_idx(color), to_x, to_y, captured)),
                mv, from_y),
            FastEnPassant(mv, color, from_x, from_y)),
        from_x, from_y, to_x, to_y, FastMoving(mv, color, piece))

FastAt(b, mv, color, from_x, from_y, to_x, to_y) ==
    [undo |-> FastUndo(b, mv, color, to_x, to_y),
     board |-> FastBoard(b, mv, color, from_x, from_y, to_x, to_y,
                         get_index(b, from_x, from_y), get_index(b, to_x, to_y))]

\* [undo, board].  The callers pass moves whose from-square is occupied and,
\* for an en-passant flag, whose captured square is occupied (the unwraps).
make_move_fast(b, mv, color) ==
    FastAt(b, mv, color, from_sq(mv) % 8, from_sq(mv) \div 8,
           to_sq(mv) % 8, to_sq(mv) \div 8)

\* if mv.is_promotion() { moving_piece.piece_type = PieceType::Pawn }
UnmakeMoving(mv, at_to) ==
    IF is_promotion(mv) THEN Piece(Pawn, at_to.color) ELSE at_to

\* if state.has_capture(): the captured piece returns in the opponent's colour
UnmakeFastCaptured(b, state, color) ==
    IF has_capture(state)
    THEN set_index(b, state.captured_sq % 8, state.captured_sq \div 8,
                   Piece(piece_type_from_idx(state.captured), opposite(color)))
    ELSE b

UnmakeFastRook(b, mv, rank) ==
    IF is_castle(mv)
    THEN IF flags(mv) = FLAG_KING_CASTLE
         THEN MovePiece(b, 5, rank, 7, rank, get_index(b, 5, rank))
         ELSE MovePiece(b, 3, rank, 0, rank, get_index(b, 3, rank))
    ELSE b

\* A faulty unpacking that forgets the saved en-passant target.
ForgetEp(prev_ep) == NoneSq

UnpackEp(prev_ep) ==
    IF prev_ep = NO_EP THEN NoneSq ELSE <<prev_ep % 8, prev_ep \div 8>>

UnmakeFastAt(b, state, color, from_x, from_y, to_x, to_y) ==
    SetHash(
        unpack_castling(
            SetEnPassant(
                UnmakeFastRook(
                    UnmakeFastCaptured(
                        MovePiece(b, to_x, to_y, from_x, from_y,
                                  UnmakeMoving(state.mv, get_index(b, to_x, to_y))),
                        state, color),
                    state.mv, from_y),
                UnpackEp(state.prev_ep)),
            state.prev_castling),
        state.prev_hash)

unmake_move_fast(b, state, color) ==
    UnmakeFastAt(b, state, color, from_sq(state.mv) % 8, from_sq(state.mv) \div 8,
                 to_sq(state.mv) % 8, to_sq(state.mv) \div 8)

-----------------------------------------------------------------------------
(* movegen.rs and board.rs: attack sets on bitboards *)

Min(S) == CHOOSE s \in S : \A t \in S : s <= t

KNIGHT_TABLE(sq) ==
    {(YOf(sq) + d[2]) * 8 + XOf(sq) + d[1] :
        d \in {e \in KnightDirs : inside(XOf(sq) + e[1], YOf(sq) + e[2])}}

KING_TABLE(sq) ==
    {(YOf(sq) + d[2]) * 8 + XOf(sq) + d[1] :
        d \in {e \in KingDirs : inside(XOf(sq) + e[1], YOf(sq) + e[2])}}

\* one loop of rook_attacks / bishop_attacks: every square from (x, y) on in
\* direction (dx, dy), up to and including the first occupied one
ray_attacks(x, y, dx, dy, occ) ==
    {(y + k * dy) * 8 + x + k * dx :
        k \in {n \in 1..7 :
                 /\ inside(x + n * dx, y + n * dy)
                 /\ \A j \in 1..(n - 1) : ((y + j * dy) * 8 + x + j * dx) \notin occ}}

rook_attacks(sq, occ) ==
    UNION {ray_attacks(XOf(sq), YOf(sq), d[1], d[2], occ) : d \in RookDirs}

bishop_attacks(sq, occ) ==
    UNION {ray_attacks(XOf(sq), YOf(sq), d[1], d[2], occ) : d \in BishopDirs}

pawn_moves(sq, color, occ, opp_occ, en_passant) ==
    LET x == XOf(sq)
        y == YOf(sq)
    IN  IF color = White
        THEN (IF y < 7 /\ ((y + 1) * 8 + x) \notin occ
              THEN {(y + 1) * 8 + x}
                   \cup (IF y = 1 /\ ((y + 2) * 8 + x) \notin occ
                         THEN {(y + 2) * 8 + x} ELSE {})
              ELSE {})
             \cup (IF x > 0 /\ y < 7 /\ ((y + 1) * 8 + x - 1) \in opp_occ
                   THEN {(y + 1) * 8 + x - 1} ELSE {})
             \cup (IF x < 7 /\ y < 7 /\ ((y + 1) * 8 + x + 1) \in opp_occ
                   THEN {(y + 1) * 8 + x + 1} ELSE {})
             \cup (IF /\ en_passant # NoneSq
                      /\ en_passant[2] = y + 1
                      /\ (en_passant[1] = x + 1 \/ en_passant[1] + 1 = x)
                   THEN {en_passant[2] * 8 + en_passant[1]} ELSE {})
        ELSE (IF y > 0 /\ ((y - 1) * 8 + x) \notin occ
              THEN {(y - 1) * 8 + x}
                   \cup (IF y = 6 /\ ((y - 2) * 8 + x) \notin occ
                         THEN {(y - 2) * 8 + x} ELSE {})
              ELSE {})
             \cup (IF x > 0 /\ y > 0 /\ ((y - 1) * 8 + x - 1) \in opp_occ
                   THEN {(y - 1) * 8 + x - 1} ELSE {})
             \cup (IF x < 7 /\ y > 0 /\ ((y - 1) * 8 + x + 1) \in opp_occ
                   THEN {(y - 1) * 8 + x + 1} ELSE {})
             \cup (IF /\ en_passant # NoneSq
                      /\ en_passant[2] + 1 = y
                      /\ (en_passant[1] = x + 1 \/ en_passant[1] + 1 = x)
                   THEN {en_passant[2] * 8 + en_passant[1]} ELSE {})

all_pieces(b, color) == UNION {b.bitboards[color_idx(color)][p] : p \in 0..5}

occupied(b) == all_pieces(b, White) \cup all_pieces(b, Black)

\* 0x0101010101010101 and 0x8080808080808080
FILE_A == {n \in 0..63 : n % 8 = 0}
FILE_H == {n \in 0..63 : n % 8 = 7}

diagonal_attacks(sq, occ) ==
    UNION {ray_attacks(XOf(sq), YOf(sq), d[1], d[2], occ) : d \in BishopDirs}

straight_attacks(sq, occ) ==
    UNION {ray_attacks(XOf(sq), YOf(sq), d[1], d[2], occ) : d \in RookDirs}

is_square_attacked_by(b, sq, by_color) ==
    LET cidx == color_idx(by_color)
        occ == occupied(b)
        pawns == b.bitboards[cidx][0]
        pawn_attacks == IF by_color = White
                        THEN Shl(pawns \ FILE_A, 7) \cup Shl(pawns \ FILE_H, 9)
                        ELSE Shr(pawns \ FILE_H, 7) \cup Shr(pawns \ FILE_A, 9)
        bishops_queens == b.bitboards[cidx][2] \cup b.bitboards[cidx][4]
        rooks_queens == b.bitboards[cidx][3] \cup b.bitboards[cidx][4]
    IN  \/ sq \in pawn_attacks
        \/ KNIGHT_TABLE(sq) \cap b.bitboards[cidx][1] # {}
        \/ KING_TABLE(sq) \cap b.bitboards[cidx][5] # {}
        \/ diagonal_attacks(sq, occ) \cap bishops_queens # {}
        \/ straight_attacks(sq, occ) \cap rooks_queens # {}

in_check_fast(b, color) ==
    LET king_bb == b.bitboards[color_idx(color)][5]
    IN  IF king_bb = {} THEN FALSE
        ELSE is_square_attacked_by(b, Min(king_bb), opposite(color))

-----------------------------------------------------------------------------
(* movegen.rs: generate_moves_fast *)

PieceOrder == <<Pawn, Knight, Bishop, Rook, Queen, King>>

\* a test that finds every square empty
NoneSeen(b, files, rank) == TRUE

\* board.get_index(x, rank).is_none() for each of the files
NoneOn(b, files, rank) == \A x \in files : is_none(get_index(b, x, rank))

\* the targets of the piece of type pt on sq, before own pieces are masked out
Targets(b, color, pt, sq, occ_all, occ_opp) ==
    LET cidx == color_idx(color)
        opp_color == opposite(color)
        rank == IF color = White THEN 0 ELSE 7
    IN  CASE pt = Pawn -> pawn_moves(sq, color, occ_all, occ_opp, b.en_passant)
          [] pt = Knight -> KNIGHT_TABLE(sq)
          [] pt = Bishop -> bishop_attacks(sq, occ_all)
          [] pt = Rook -> rook_attacks(sq, occ_all)
          [] pt = Queen -> bishop_attacks(sq, occ_all) \cup rook_attacks(sq, occ_all)
          [] pt = King ->
                KING_TABLE(sq)
                \cup (IF /\ sq = rank * 8 + 4
                         /\ b.castling[cidx][0]
                         /\ NoneOn(b, {5, 6}, rank)
                         /\ ~is_square_attacked_by(b, sq, opp_color)
                         /\ ~is_square_attacked_by(b, rank * 8 + 5, opp_color)
                      THEN {rank * 8 + 6} ELSE {})
                \cup (IF /\ sq = rank * 8 + 4
                         /\ b.castling[cidx][1]
                         /\ NoneOn(b, {1, 2, 3}, rank)
                         /\ ~is_square_attacked_by(b, sq, opp_color)
                         /\ ~is_square_attacked_by(b, rank * 8 + 3, opp_color)
                      THEN {rank * 8 + 2} ELSE {})

\* the flags the inner loop gives the move sq -> to of a piece that is not
\* promoting
MoveFlags(pt, sq, to, occ_opp) ==
    LET dy == Abs(to - sq)
        capture == to \in occ_opp \/ (pt = Pawn /\ dy % 8 # 0)
        f0 == IF capture THEN FLAG_CAPTURE ELSE FLAG_NORMAL
        f1 == IF pt = Pawn /\ dy = 16 THEN FLAG_DOUBLE_PUSH ELSE f0
        f2 == IF pt = Pawn /\ dy % 8 # 0 /\ to \notin occ_opp THEN FLAG_EP_CAPTURE ELSE f1
    IN  IF pt = King /\ dy = 2
        THEN (IF to > sq THEN FLAG_KING_CASTLE ELSE FLAG_QUEEN_CASTLE)
        ELSE f2

\* a set of squares in the order trailing_zeros visits it: lowest first
Ascending(S) ==
    Array([i \in 1..Cardinality(S) |->
              CHOOSE x \in S : Cardinality({y \in S : y < x}) = i - 1])

\* the moves pushed for sq -> to: the four promotions of a pawn reaching a last
\* rank, else the one move with its flags
Pushed(pt, sq, to, occ_opp) ==
    IF pt = Pawn /\ (to \div 8 = 0 \/ to \div 8 = 7)
    THEN <<MovePromotion(sq, to, Queen, to \in occ_opp),
           MovePromotion(sq, to, Rook, to \in occ_opp),
           MovePromotion(sq, to, Bishop, to \in occ_opp),
           MovePromotion(sq, to, Knight, to \in occ_opp)>>
    ELSE <<MoveNew(sq, to, MoveFlags(pt, sq, to, occ_opp))>>

\* if board.is_legal(&f_s, &t_s, color) { moves.push(..) }; acc is
\* [list, board], the board being the one is_legal leaves
GenPush(acc, legal_r, pt, sq, to, occ_opp) ==
    [list |-> IF legal_r.ret THEN acc.list \o Pushed(pt, sq, to, occ_opp) ELSE acc.list,
     board |-> legal_r.board]

\* one round of the inner loop
GenTarget(acc, color, pt, sq, to, occ_opp) ==
    GenPush(acc,
            is_legal(acc.board, index_to_algebraic(sq % 8, sq \div 8),
                     index_to_algebraic(to % 8, to \div 8), color),
            pt, sq, to, occ_opp)

\* the inner loop over targets[lo..hi], in order (the range is halved so that
\* the rounds nest no deeper than its logarithm)
RECURSIVE GenTargets(_, _, _, _, _, _, _, _)
GenTargets(acc, color, pt, sq, targets, lo, hi, occ_opp) ==
    IF lo > hi THEN acc
    ELSE IF lo = hi THEN GenTarget(acc, color, pt, sq, targets[lo], occ_opp)
    ELSE Then(acc.list,
              GenTargets(
                  GenTargets(acc, color, pt, sq, targets, lo, (lo + hi) \div 2, occ_opp),
                  color, pt, sq, targets, (lo + hi) \div 2 + 1, hi, occ_opp))

GenTargetsAll(acc, color, pt, sq, targets, occ_opp) ==
    GenTargets(acc, color, pt, sq, targets, 1, Len(targets), occ_opp)

\* one round of the loop over the pieces of one type
GenPiece(acc, color, pt, sq, occ_self, occ_opp, occ_all) ==
    GenTargetsAll(acc, color, pt, sq,
                  Ascending(Targets(acc.board, color, pt, sq, occ_all, occ_opp) \ occ_self),
                  occ_opp)

RECURSIVE GenPieces(_, _, _, _, _, _, _, _, _)
GenPieces(acc, color, pt, squares, lo, hi, occ_self, occ_opp, occ_all) ==
    IF lo > hi THEN acc
    ELSE IF lo = hi THEN GenPiece(acc, color, pt, squares[lo], occ_self, occ_opp, occ_all)
    ELSE Then(acc.list,
              GenPieces(
                  GenPieces(acc, color, pt, squares, lo, (lo + hi) \div 2,
                            occ_self, occ_opp, occ_all),
                  color, pt, squares, (lo + hi) \div 2 + 1, hi,
                  occ_self, occ_opp, occ_all))

GenPiecesAll(acc, color, pt, squares, occ_self, occ_opp, occ_all) ==
    GenPieces(acc, color, pt, squares, 1, Len(squares), occ_self, occ_opp, occ_all)

\* one piece type: its bitboard is read when its turn comes
GenType(acc, color, pt, occ_self, occ_opp, occ_all) ==
    GenPiecesAll(acc, color, pt,
                 Ascending(acc.board.bitboards[color_idx(color)][piece_index(pt)]),
                 occ_self, occ_opp, occ_all)

\* the loop over the piece types
RECURSIVE GenTypes(_, _, _, _, _, _)
GenTypes(acc, color, n, occ_self, occ_opp, occ_all) ==
    Then(acc.list,
         IF n > 6 THEN acc
         ELSE GenTypes(GenType(acc, color, PieceOrder[n], occ_self, occ_opp, occ_all),
                       color, n + 1, occ_self, occ_opp, occ_all))

\* The three loops visit the candidates (piece type, square, target) in the
\* order of the numbers (n * 64 + sq) * 64 + to, n being the place of the type
\* in PieceOrder.  While every is_legal call hands the board back as it found
\* it, each round sees the board b, and the list is the candidates of b that
\* is_legal accepts; that case is computed without the nesting of the loops.
CandidateKeys(b, color, occ_self, occ_opp, occ_all) ==
    UNION {UNION {{(n * 64 + sq) * 64 + to :
                      to \in Targets(b, color, PieceOrder[n], sq, occ_all, occ_opp)
                              \ occ_self} :
                  sq \in b.bitboards[color_idx(color)][piece_index(PieceOrder[n])]} :
           n \in 1..6}

CandType(k) == PieceOrder[k \div 4096]
CandFrom(k) == (k \div 64) % 64
CandTo(k) == k % 64

\* is_legal for each candidate, on the board b
CandLegal(b, color, cands) ==
    Array([i \in 1..Len(cands) |->
              is_legal(b, index_to_algebraic(CandFrom(cands[i]) % 8, CandFrom(cands[i]) \div 8),
                       index_to_algebraic(CandTo(cands[i]) % 8, CandTo(cands[i]) \div 8),
                       color)])

\* what each candidate pushes
CandPushed(cands, rs, occ_opp) ==
    Array([i \in 1..Len(cands) |->
              IF rs[i].ret
              THEN Pushed(CandType(cands[i]), CandFrom(cands[i]), CandTo(cands[i]), occ_opp)
              ELSE <<>>])

\* offs[i]: how many moves the candidates before the i-th pushed
PushedBefore(ps) ==
    Array([i \in 1..(Len(ps) + 1) |->
              Cardinality({km \in (1..(i - 1)) \X (1..4) : km[2] <= Len(ps[km[1]])})])

\* the candidate that pushed the j-th move
Pusher(offs, j) == CHOOSE i \in 1..(Len(offs) - 1) : offs[i] < j /\ j <= offs[i + 1]

PushedList(ps, offs) ==
    Array([j \in 1..offs[Len(offs)] |-> ps[Pusher(offs, j)][j - offs[Pusher(offs, j)]]])

GenPushedList(ps) == PushedList(ps, PushedBefore(ps))

GenCandidates(b, color, occ_self, occ_opp, cands, rs) ==
    IF \A i \in 1..Len(cands) : rs[i].board = b
    THEN [list |-> GenPushedList(CandPushed(cands, rs, occ_opp)), board |-> b]
    ELSE GenTypes([list |-> <<>>, board |-> b], color, 1,
                  occ_self, occ_opp, occ_self \cup occ_opp)

GenLegal(b, color, occ_self, occ_opp, cands) ==
    GenCandidates(b, color, occ_self, occ_opp, cands, CandLegal(b, color, cands))

GenAll(b, color, occ_self, occ_opp) ==
    GenLegal(b, color, occ_self, occ_opp,
             Ascending(CandidateKeys(b, color, occ_self, occ_opp, occ_self \cup occ_opp)))

\* [list, board]: the MoveList filled in the code's order and the board left
generate_moves_fast(b, color) ==
    GenAll(b, color, all_pieces(b, color), all_pieces(b, opposite(color)))

\* generate_moves: the list as (from, to) strings, a promotion's letter appended
PromoChar(pt) ==
    CASE pt = Queen -> "q" [] pt = Rook -> "r" [] pt = Bishop -> "b"
      [] pt = Knight -> "n" [] OTHER -> "q"

MoveStrings(m) ==
    <<index_to_algebraic(from_sq(m) % 8, from_sq(m) \div 8),
      IF is_promotion(m) /\ promotion_piece(m) # "None"
      THEN Append(index_to_algebraic(to_sq(m) % 8, to_sq(m) \div 8),
                  PromoChar(promotion_piece(m)))
      ELSE index_to_algebraic(to_sq(m) % 8, to_sq(m) \div 8)>>

StringList(g) ==
    [list |-> [i \in 1..Len(g.list) |-> MoveStrings(g.list[i])], board |-> g.board]

generate_moves(b, color) == StringList(generate_moves_fast(b, color))

-----------------------------------------------------------------------------
(* game.rs: the Game driver *)

NoResult == "None"

Game(b, turn, history, hash_history, hash_counts, result) ==
    [board |-> b, current_turn |-> turn, history |-> history,
     hash_history |-> hash_history, hash_counts |-> hash_counts, result |-> result]

\* the game with its board replaced
WithBoard(g, b) ==
    Game(b, g.current_turn, g.history, g.hash_history, g.hash_counts, g.result)

\* a map that is left as it was
CountKept(hc, h) == hc

\* hash_counts.insert(h, 1)
CountReset(hc, h) == Array([k \in DOMAIN hc \cup {h} |-> IF k = h THEN 1 ELSE hc[k]])

\* *hash_counts.entry(h).or_insert(0) += 1
CountInsert(hc, h) ==
    Array([k \in DOMAIN hc \cup {h} |->
              IF k = h THEN (IF h \in DOMAIN hc THEN hc[h] ELSE 0) + 1 ELSE hc[k]])

GameStart(b, h) == Game(b, White, <<>>, <<h>>, CountInsert(<<>>, h), NoResult)

GameOn(b) == GameStart(b, BoardHash(b, White))

GameNew == GameOn(setup_standard(BoardNew))

\* [ret, game, list]: list is the MoveList the call to all_legal_moves_fast
\* built for the new position (empty when the call was not reached)
MoveRefused(g) == [ret |-> FALSE, game |-> g, list |-> <<>>]

\* the move is made: history, turn and hashes are updated, and the side to
\* move is mated when it has no move and is in check
GameDone(g, start, end, turn, h, gen) ==
    [ret |-> TRUE,
     game |-> Game(gen.board, turn, Append(g.history, <<start, end>>),
                   Append(g.hash_history, h), CountInsert(g.hash_counts, h),
                   IF Len(gen.list) = 0 /\ in_check(gen.board, turn)
                   THEN opposite(turn) ELSE g.result),
     list |-> gen.list]

\* if self.board.make_move_state(start, end).is_some()
GameMade(g, start, end, made, turn) ==
    IF made.state = NoMoveState THEN MoveRefused(WithBoard(g, made.board))
    ELSE GameDone(g, start, end, turn, BoardHash(made.board, turn),
                  generate_moves_fast(made.board, turn))

\* if !self.board.is_legal(start, end, self.current_turn) { return false }
GameLegal(g, start, end, l) ==
    IF ~l.ret THEN MoveRefused(WithBoard(g, l.board))
    ELSE GameMade(g, start, end, make_move_state(l.board, start, end),
                  opposite(g.current_turn))

GameMakeMoveFn(g, start, end) ==
    IF start = end THEN MoveRefused(g)
    ELSE GameLegal(g, start, end, is_legal(g.board, start, end, g.current_turn))

-----------------------------------------------------------------------------
(* transposition.rs: the table.  The model holds the one RawEntry that the
   keys it uses are mapped to (key % entries.len()).  The packed word keeps
   depth, age, bound, from and to in disjoint bit ranges; it is modelled as
   the record of these five fields. *)

Exact == "Exact"
Lower == "Lower"
Upper == "Upper"

NoBest == <<>>
NoEntry == [none |-> TRUE]

TTEntry(depth, value, bound, best) ==
    [depth |-> depth, value |-> value, bound |-> bound, best |-> best]

Packed(depth, age, bound, from, to) ==
    [depth |-> depth, age |-> age, bound |-> bound, from |-> from, to |-> to]

RawEntry(key, value, packed) == [key |-> key, value |-> value, packed |-> packed]

\* RawEntry::default(): key 0, value 0, packed 0
RawDefault == RawEntry({}, 0, Packed(0, 0, 0, 0, 0))

\* next_age: the u8 age wraps
next_age(age) == (age + 1) % 256

\* packed_new of store: Exact 0, Lower 1, Upper 2; 0xFF twice for no best move
packed_new(entry, age) ==
    Packed(entry.depth, age,
           CASE entry.bound = Exact -> 0 [] entry.bound = Lower -> 1 [] OTHER -> 2,
           IF entry.best = NoBest THEN 255 ELSE entry.best[1],
           IF entry.best = NoBest THEN 255 ELSE entry.best[2])

\* the TTEntry get builds from the value and the packed word it loaded
Unpacked(value, packed) ==
    TTEntry(packed.depth, value,
            CASE packed.bound = 1 -> Lower [] packed.bound = 2 -> Upper [] OTHER -> Exact,
            IF packed.from = 255 THEN NoBest ELSE <<packed.from, packed.to>>)

\* Table::get run alone
get(slot, key) ==
    IF slot.key = key THEN Unpacked(slot.value, slot.packed) ELSE NoEntry


\* a store that never keeps the old entry
AlwaysReplaces(slot, age, key, entry) == TRUE

\* the two tests of store: another key's entry gives way to an equal or
\* greater depth or when it is more than 5 ages old, the same key's entry to
\* an equal or greater depth
Replaces(slot, age, key, entry) ==
    IF slot.key # key
    THEN \/ entry.depth >= slot.packed.depth
         \/ (age - slot.packed.age + 256) % 256 > 5
    ELSE entry.depth >= slot.packed.depth

\* Table::store run alone
store(slot, age, key, entry) ==
    IF Replaces(slot, age, key, entry)
    THEN RawEntry(key, entry.value, packed_new(entry, age))
    ELSE slot

-----------------------------------------------------------------------------
(* opening.rs: the book *)

\* "e2e4" as <<"e", "2", "e", "4">>; split_at(2) gives the two squares
SplitAt2(mv) == <<SubSeq(mv, 1, 2), SubSeq(mv, 3, Len(mv))>>

BookItalian ==
    <<<<"e", "2", "e", "4">>, <<"e", "7", "e", "5">>, <<"g", "1", "f", "3">>,
      <<"b", "8", "c", "6">>, <<"f", "1", "c", "4">>, <<"f", "8", "c", "5">>,
      <<"c", "2", "c", "3">>, <<"g", "8", "f", "6">>, <<"d", "2", "d", "3">>>>

BookQueensGambit ==
    <<<<"d", "2", "d", "4">>, <<"d", "7", "d", "5">>, <<"c", "2", "c", "4">>,
      <<"e", "7", "e", "6">>, <<"b", "1", "c", "3">>, <<"g", "8", "f", "6">>,
      <<"c", "1", "g", "5">>, <<"f", "8", "e", "7">>>>

BookSicilian ==
    <<<<"e", "2", "e", "4">>, <<"c", "7", "c", "5">>, <<"g", "1", "f", "3">>,
      <<"d", "7", "d", "6">>, <<"d", "2", "d", "4">>, <<"c", "5", "d", "4">>,
      <<"f", "3", "d", "4">>, <<"g", "8", "f", "6">>, <<"b", "1", "c", "3">>,
      <<"a", "7", "a", "6">>>>

BookEnglish ==
    <<<<"c", "2", "c", "4">>, <<"e", "7", "e", "5">>, <<"b", "1", "c", "3">>,
      <<"g", "8", "f", "6">>, <<"g", "2", "g", "3">>, <<"d", "7", "d", "5">>,
      <<"c", "4", "d", "5">>, <<"f", "6", "d", "5">>, <<"f", "1", "g", "2">>,
      <<"b", "8", "b", "6">>, <<"g", "1", "f", "3">>>>

BookKingsIndian ==
    <<<<"d", "2", "d", "4">>, <<"g", "8", "f", "6">>, <<"c", "2", "c", "4">>,
      <<"g", "7", "g", "6">>, <<"b", "1", "c", "3">>, <<"f", "8", "g", "7">>,
      <<"e", "2", "e", "4">>, <<"d", "7", "d", "6">>, <<"g", "1", "f", "3">>,
      <<"e", "8", "g", "8">>>>

BookFrench ==
    <<<<"e", "2", "e", "4">>, <<"e", "7", "e", "6">>, <<"d", "2", "d", "4">>,
      <<"d", "7", "d", "5">>, <<"b", "1", "c", "3">>, <<"g", "8", "f", "6">>,
      <<"c", "1", "g", "5">>, <<"f", "8", "e", "7">>>>

BookCaroKann ==
    <<<<"e", "2", "e", "4">>, <<"c", "7", "c", "6">>, <<"d", "2", "d", "4">>,
      <<"d", "7", "d", "5">>, <<"b", "1", "c", "3">>, <<"d", "5", "e", "4">>,
      <<"c", "3", "e", "4">>, <<"c", "8", "f", "5">>, <<"g", "1", "g", "3">>,
      <<"f", "5", "g", "6">>>>

BOOK_LINES ==
    <<BookItalian, BookQueensGambit, BookSicilian, BookEnglish, BookKingsIndian,
      BookFrench, BookCaroKann>>

NoBookMove == <<>>

\* played: format!("{}{}", s, e) of every move of the history
Played(history) == [i \in 1..Len(history) |-> history[i][1] \o history[i][2]]

\* the line is longer than the game and starts with the moves played
LineMatches(played, line) ==
    /\ Len(played) < Len(line)
    /\ \A i \in 1..Len(played) : played[i] = line[i]

\* the lines from the n-th on: the first one that matches and whose next move
\* has four characters and passes is_legal on a copy of the board gives it
RECURSIVE BookFrom(_, _, _, _)
BookFrom(n, played, b, color) ==
    IF n > Len(BOOK_LINES) THEN NoBookMove
    ELSE IF /\ LineMatches(played, BOOK_LINES[n])
            /\ Len(BOOK_LINES[n][Len(played) + 1]) = 4
            /\ is_legal(b, SubSeq(BOOK_LINES[n][Len(played) + 1], 1, 2),
                        SubSeq(BOOK_LINES[n][Len(played) + 1], 3, 4), color).ret
    THEN SplitAt2(BOOK_LINES[n][Len(played) + 1])
    ELSE BookFrom(n + 1, played, b, color)

book_move(history, b, color) == BookFrom(1, Played(history), b, color)

-----------------------------------------------------------------------------
(* engine.rs: the engine, its stop flag and the root of the search.  An
   Arc<AtomicBool> is an index into `heap`; Arc::new appends a cell, a clone
   of the Arc is the same index. *)

MATE_VALUE == 10000
MAX_DEPTH == 64
ASPIRATION == 50

\* Option<Move>: <<>> or <<m>>
NoneMove == <<>>
NoAnswer == [none |-> TRUE]

\* Engine::with_threads_and_table: stop_flag is the first cell of the heap,
\* there is no time manager
\* no call of best_move_timed has returned yet
NoCall == [none |-> TRUE]

\* what a call asked and what it returned
Call(e) == [config |-> e.config, timed |-> e.timed, result |-> e.result]

EngineNew ==
    [pc |-> "idle", stop_flag |-> 1, time_manager |-> <<>>, timed |-> FALSE,
     max_depth |-> 0, d |-> 0, alpha |-> 0, beta |-> 0, guess |-> 0,
     best_move |-> NoneMove, reached_depth |-> 0, result |-> NoAnswer,
     score |-> 0, calls |-> 0, priors |-> 0, stop_sent |-> FALSE,
     completed |-> FALSE, book |-> FALSE, config |-> 0, aged |-> 0, prev |-> NoCall,
     up |-> FALSE, up_at |-> 0, max_ply |-> 0, fail_lows |-> 0, fail_highs |-> 0,
     root_best |-> NoneMove, stop_ply |-> -1, stop_pc |-> "none"]

\* string_to_move: the flags are rebuilt from the board
string_to_move(b, sx, sy, ex, ey) ==
    MoveNew(sy * 8 + sx, ey * 8 + ex,
        IF get_index(b, sx, sy).piece_type = Pawn
        THEN IF ey = 0 \/ ey = 7
             THEN IF is_some(get_index(b, ex, ey)) THEN FLAG_PROMO_QUEEN_CAP
                  ELSE FLAG_PROMO_QUEEN
             ELSE IF Abs(ey - sy) = 2 /\ Abs(ex - sx) = 0 THEN FLAG_DOUBLE_PUSH
             ELSE IF Abs(ex - sx) # 0 /\ is_none(get_index(b, ex, ey)) THEN FLAG_EP_CAPTURE
             ELSE IF is_some(get_index(b, ex, ey)) THEN FLAG_CAPTURE
             ELSE FLAG_NORMAL
        ELSE IF get_index(b, sx, sy).piece_type = King /\ Abs(ex - sx) = 2
        THEN IF ex > sx THEN FLAG_KING_CASTLE ELSE FLAG_QUEEN_CASTLE
        ELSE IF is_some(get_index(b, ex, ey)) THEN FLAG_CAPTURE
        ELSE FLAG_NORMAL)

\* the answer of best_move_single: best_move.map(...), the promotion letter
\* appended to the destination
Answer(best_move, reached_depth) ==
    IF best_move = NoneMove THEN NoAnswer
    ELSE [move |-> MoveStrings(best_move[1]), depth |-> reached_depth]

\* pvs at the root, not stopped.  The value the move loop finds and the move
\* that finds it are inputs: s and m.  The result is [score, slot].
\* mate-distance clamp of the window
ClampAlpha(alpha) == IF alpha < -MATE_VALUE THEN -MATE_VALUE ELSE alpha
ClampBeta(beta) == IF beta > MATE_VALUE THEN MATE_VALUE ELSE beta

\* the table hit: an entry at least as deep returns its value when Exact, and
\* raises alpha when Lower
HitAlpha(entry, depth, alpha) ==
    IF entry # NoEntry /\ entry.depth >= depth /\ entry.bound = Lower /\ entry.value > alpha
    THEN entry.value ELSE alpha

HitReturns(entry, depth, alpha, beta) ==
    /\ entry # NoEntry
    /\ entry.depth >= depth
    /\ \/ entry.bound = Exact
       \/ HitAlpha(entry, depth, alpha) >= beta

\* one store of the move loop: the slot after it, whether the table took the
\* entry, and the packed move whose squares the entry carries
Stored(slot, age, hash, entry, score, best) ==
    [score |-> score, slot |-> store(slot, age, hash, entry),
     stored |-> Replaces(slot, age, hash, entry), best |-> best]

\* a return of pvs that stores nothing
Unstored(slot, score) == [score |-> score, slot |-> slot, stored |-> FALSE, best |-> <<>>]

\* the move loop and the stores that end it: a cutoff stores a Lower entry
\* with the move and returns beta; otherwise the final store has the best
\* move, if one raised alpha, and is Upper when alpha did not rise
PvsLoop(slot, age, hash, depth, alpha_orig, alpha, beta, s, m) ==
    IF s >= beta
    THEN Stored(slot, age, hash, TTEntry(depth, beta, Lower, <<from_sq(m), to_sq(m)>>),
                beta, <<m>>)
    ELSE IF s > alpha
    THEN Stored(slot, age, hash, TTEntry(depth, s, Exact, <<from_sq(m), to_sq(m)>>),
                s, <<m>>)
    ELSE Stored(slot, age, hash,
                TTEntry(depth, alpha, IF alpha <= alpha_orig THEN Upper ELSE Exact, NoBest),
                alpha, <<>>)

\* stuck is <<>> when the side to move has a legal move, else the value
\* returned for mate or stalemate; pruned says that reverse futility or the
\* null move may return a value s >= beta before the move loop
PvsAt(slot, age, hash, depth, alpha, beta, entry, stuck, pruned, s, m) ==
    IF alpha >= beta THEN Unstored(slot, alpha)
    ELSE IF HitReturns(entry, depth, alpha, beta) THEN Unstored(slot, entry.value)
    ELSE IF pruned /\ s >= beta THEN Unstored(slot, s)
    ELSE IF stuck # <<>> THEN Unstored(slot, stuck[1])
    ELSE PvsLoop(slot, age, hash, depth, alpha, HitAlpha(entry, depth, alpha), beta, s, m)

pvs(slot, age, hash, depth, alpha, beta, stuck, pruned, s, m) ==
    PvsAt(slot, age, hash, depth, ClampAlpha(alpha), ClampBeta(beta), get(slot, hash),
          stuck, pruned, s, m)

-----------------------------------------------------------------------------
(* The games the model starts from: Game::new and games a few legal moves on,
   each played through Game::make_move, so that castling, en passant,
   promotion and the capture of a rook on its corner are one move away *)

Line(ms) == [i \in 1..Len(ms) |-> SplitAt2(ms[i])]

\* 1.e4 e5 2.Nf3 Nc6 3.Bc4 Bc5: White may castle king-side
LineItalian ==
    Line(<< <<"e","2","e","4">>, <<"e","7","e","5">>, <<"g","1","f","3">>,
            <<"b","8","c","6">>, <<"f","1","c","4">>, <<"f","8","c","5">> >>)

\* 1.g3 b6 2.Bh3 Bb7 3.e3 a6 4.Ne2: Black may capture the rook on h1
LineRookH1 ==
    Line(<< <<"g","2","g","3">>, <<"b","7","b","6">>, <<"f","1","h","3">>,
            <<"c","8","b","7">>, <<"e","2","e","3">>, <<"a","7","a","6">>,
            <<"g","1","e","2">> >>)

\* 1.e4 a6 2.e5 d5: White may capture en passant on d6
LineEnPassant ==
    Line(<< <<"e","2","e","4">>, <<"a","7","a","6">>, <<"e","4","e","5">>,
            <<"d","7","d","5">> >>)

\* 1.a4 b5 2.axb5 a6 3.bxa6 Bb7 4.axb7 Nc6: the b7 pawn may promote on b8 or
\* by capturing the rook on a8
LinePromotion ==
    Line(<< <<"a","2","a","4">>, <<"b","7","b","5">>, <<"a","4","b","5">>,
            <<"a","7","a","6">>, <<"b","5","a","6">>, <<"c","8","b","7">>,
            <<"a","6","b","7">>, <<"b","8","c","6">> >>)

\* 1.f3 e5 2.g4: Black may mate with the queen on h4
LineFools ==
    Line(<< <<"f","2","f","3">>, <<"e","7","e","5">>, <<"g","2","g","4">> >>)

StartLines == {<<>>, LineItalian, LineRookH1, LineEnPassant, LinePromotion, LineFools}

\* the (start, end) pairs a caller may hand to Game::make_move: moves of the
\* positions above and inputs no rule of chess allows
InputMoves ==
    {SplitAt2(m) : m \in
        {<<"e","2","e","4">>, <<"g","1","f","3">>, <<"e","1","g","1">>,
         <<"b","7","h","1">>, <<"e","5","d","6">>, <<"b","7","a","8">>,
         <<"b","7","b","8">>, <<"b","7","a","8","q">>,
         <<"e","2","e","5">>, <<"a","1","a","3">>, <<"e","2","e","2">>,
         <<"e","9","e","4">>, <<"d","4","d","5">>, <<"d","8","h","4">>,
         <<"e","4","e","6">>}}

\* the squares and pieces of the position set-ups through Board::set_index
EditInputs ==
    {<<0, 2, Piece(Knight, White)>>, <<4, 1, NoPiece>>, <<3, 7, NoPiece>>,
     <<4, 6, Piece(Pawn, White)>>, <<6, 2, Piece(Knight, Black)>>}

-----------------------------------------------------------------------------
(* Spec: the Game driver and the make / unmake pairs of the search board *)

\* Game::new, and the opening the caller is going to play
GameInit(lines) ==
    /\ game = GameNew
    /\ legal = generate_moves_fast(game.board, game.current_turn).list
    /\ phase = "game"
    /\ board = game.board
    /\ side = game.current_turn
    /\ moves = legal
    /\ stack = <<>>
    /\ nodes = 0
    /\ last = [op |-> "new"]
    /\ plies = 0
    /\ script \in lines

\* Table::new: every slot is RawEntry::default() and the age is 0
TableNew == [slot |-> RawDefault, age |-> 0]

\* Engine::new: an empty table, one flag cell, no clone
EngineInit ==
    /\ tt = TableNew
    /\ engine = EngineNew
    /\ heap = <<FALSE>>
    /\ stopper = <<>>

\* the threads that share the table, none of them inside it
Threads == 1..MaxThreads

ThreadIdle ==
    [pc |-> "idle", key |-> {}, entry |-> NoEntry, existing_key |-> {}, value |-> 0,
     ret |-> NoEntry]

TableInit ==
    /\ thr = [t \in Threads |-> ThreadIdle]
    /\ done = [stores |-> {}, gets |-> 0]

Init == GameInit(StartLines) /\ EngineInit /\ TableInit

\* the inputs the caller may give next: the opening first, then any input
NextInputs == IF script # <<>> THEN {Head(script)} ELSE InputMoves

\* the state Game::make_move leaves; r is what the call returned
GameMoved(start, end, r) ==
    /\ game' = r.game
    /\ legal' = IF r.ret THEN r.list ELSE legal
    /\ plies' = IF r.ret /\ script = <<>> THEN plies + 1 ELSE plies
    /\ last' = [op |-> "Game::make_move", start |-> start, end |-> end,
                ret |-> r.ret, pre |-> game, pre_legal |-> legal]

\* Game::make_move(start, end), the refresh of the legal list included
GameMakeMove(start, end) ==
    /\ phase = "game"
    /\ script # <<>> \/ plies < MaxPlies
    /\ GameMoved(start, end, GameMakeMoveFn(game, start, end))
    /\ script' = IF script # <<>> THEN Tail(script) ELSE script
    /\ UNCHANGED <<phase, board, side, moves, stack, nodes, engineVars, tableVars>>

\* the piece the GUI puts back after a refused drag: the one it lifted
PutBack(x, y, piece) ==
    /\ is_some(piece)
    /\ game' = WithBoard(game, set_index(game.board, x, y, piece))
    /\ last' = [op |-> "set_index", x |-> x, y |-> y, piece |-> piece,
                pre |-> game.board]

\* gui.rs: a drag released on a move Game::make_move refused puts the dragged
\* piece back on its square with set_index
GuiPutBack ==
    /\ phase = "game"
    /\ last.op = "Game::make_move"
    /\ ~last.ret
    /\ algebraic_to_index(last.start) # NoneSq
    /\ PutBack(algebraic_to_index(last.start)[1], algebraic_to_index(last.start)[2],
               get_index(last.pre.board, algebraic_to_index(last.start)[1],
                         algebraic_to_index(last.start)[2]))
    /\ UNCHANGED <<legal, phase, board, side, moves, stack, nodes, plies, script, engineVars, tableVars>>

\* best_move_single: let mut board = game.board.clone(), and the root's list
Clone ==
    /\ phase = "game"
    /\ script = <<>>
    /\ phase' = "search"
    /\ board' = game.board
    /\ side' = game.current_turn
    /\ moves' = generate_moves_fast(game.board, game.current_turn).list
    /\ stack' = <<>>
    /\ nodes' = 0
    /\ last' = [op |-> "clone"]
    /\ UNCHANGED <<game, legal, plies, script, engineVars, tableVars>>

\* the board set_index leaves, and the list generated for it
Edited(x, y, piece, b) ==
    /\ board' = b
    /\ moves' = generate_moves_fast(b, side).list
    /\ last' = [op |-> "set_index", x |-> x, y |-> y, piece |-> piece, pre |-> board]

\* Board::set_index on the clone: a position set up by hand
BoardSet(x, y, piece) ==
    /\ phase = "search"
    /\ stack = <<>>
    /\ nodes = 0
    /\ board = game.board
    /\ Edited(x, y, piece, set_index(board, x, y, piece))
    /\ UNCHANGED <<game, legal, phase, side, stack, nodes, plies, script, engineVars, tableVars>>

\* the list generate_moves_fast gives the node the search reaches by a move
\* (a node at the depth bound is not expanded)
ChildMoves(b, color) ==
    IF Len(stack) + 1 < MaxStack THEN generate_moves_fast(b, color).list ELSE <<>>

\* the state after a move made on the search board: r is [undo, board]
Made(kind, op, mv, undo, b) ==
    /\ board' = b
    /\ stack' = Append(stack, [kind |-> kind, undo |-> undo, color |-> side,
                               pre |-> board, moves |-> moves])
    /\ moves' = ChildMoves(b, opposite(side))
    /\ side' = opposite(side)
    /\ nodes' = nodes + 1
    /\ last' = [op |-> op, mv |-> mv, color |-> side, pre |-> board]

FastMade(mv, r) == Made("fast", "make_move_fast", mv, r.undo, r.board)

\* the search makes a move of its list with make_move_fast
SearchMake(mv) ==
    /\ phase = "search"
    /\ Len(stack) < MaxStack
    /\ nodes < MaxNodes
    /\ FastMade(mv, make_move_fast(board, mv, side))
    /\ UNCHANGED <<game, legal, phase, plies, script, engineVars, tableVars>>

\* the state after a move taken back: top is the stack entry, b the board
Unmade(op, top, b) ==
    /\ board' = b
    /\ side' = top.color
    /\ moves' = top.moves
    /\ stack' = SubSeq(stack, 1, Len(stack) - 1)
    /\ UNCHANGED nodes
    /\ last' = [op |-> op, undo |-> top.undo, color |-> top.color, before |-> top.pre,
                made |-> board]

FastUnmade(top) ==
    /\ top.kind = "fast"
    /\ Unmade("unmake_move_fast", top, unmake_move_fast(board, top.undo, top.color))

\* and takes it back with unmake_move_fast and the UndoState it kept
SearchUnmake ==
    /\ phase = "search"
    /\ stack # <<>>
    /\ FastUnmade(stack[Len(stack)])
    /\ UNCHANGED <<game, legal, phase, plies, script, engineVars, tableVars>>

StateMade(mv, r) ==
    /\ r.state # NoMoveState
    /\ Made("state", "make_move_state", mv, r.state, r.board)

\* the same move made with make_move_state, as is_legal and Game::make_move do
StateMake(mv) ==
    /\ phase = "search"
    /\ Len(stack) < MaxStack
    /\ nodes < MaxNodes
    /\ StateMade(mv, make_move_state(board,
                     index_to_algebraic(from_sq(mv) % 8, from_sq(mv) \div 8),
                     index_to_algebraic(to_sq(mv) % 8, to_sq(mv) \div 8)))
    /\ UNCHANGED <<game, legal, phase, plies, script, engineVars, tableVars>>

StateUnmade(top) ==
    /\ top.kind = "state"
    /\ Unmade("unmake_move", top, unmake_move(board, top.undo))

StateUnmake ==
    /\ phase = "search"
    /\ stack # <<>>
    /\ StateUnmade(stack[Len(stack)])
    /\ UNCHANGED <<game, legal, phase, plies, script, engineVars, tableVars>>

Next ==
    \/ \E m \in NextInputs : GameMakeMove(m[1], m[2])
    \/ GuiPutBack
    \/ Clone
    \/ \E e \in EditInputs : BoardSet(e[1], e[2], e[3])
    \/ \E i \in 1..Len(moves) : SearchMake(moves[i])
    \/ SearchUnmake
    \/ \E i \in 1..Len(moves) : StateMake(moves[i])
    \/ StateUnmake

Spec == Init /\ [][Next]_vars

-----------------------------------------------------------------------------
(* The engine: best_move_timed and best_move_single step by step, with the
   calls that may come between the steps: stop() on a clone of the Engine made
   earlier, and before the search the stores of earlier searches.  The value
   the move loop of the root pvs finds is an input. *)

\* 1.a3: no book line starts with it
\* Engine::new(6) of the search binary
FixedDepth == 6

LineA3 == Line(<< <<"a","2","a","3">> >>)

\* 1.e4 c6 2.d4 d5 3.Nc3 dxe4 4.Nxe4 Bf5: eight plies of the Caro-Kann line
LineCaroKann == Line(SubSeq(BookCaroKann, 1, 8))

EngineLines == {<<>>, LineA3, LineCaroKann}

\* the values the move loop may find, and a key of another position that
\* shares the slot of the root
Scores == {0, 100}
OtherKey == {0}

RootKey == BoardHash(game.board, game.current_turn)

\* the first legal moves of the root
RootMoves == {legal[i] : i \in 1..(IF Len(legal) < MaxRootMoves THEN Len(legal) ELSE MaxRootMoves)}

\* a record with some fields replaced
With(e, fields) == fields @@ e

StopFlagSet == heap[engine.stop_flag]

\* Engine::clone taken while no search runs: it shares the stop flag the
\* engine holds at that moment
EngineClone ==
    /\ engine.pc = "idle"
    /\ script = <<>>
    /\ stopper = <<>>
    /\ stopper' = <<engine.stop_flag>>
    /\ UNCHANGED <<boardVars, tt, engine, heap, tableVars>>

\* Engine::stop on the engine itself, between two searches
Stop ==
    /\ engine.pc = "idle"
    /\ script = <<>>
    /\ ~StopFlagSet
    /\ heap' = [heap EXCEPT ![engine.stop_flag] = TRUE]
    /\ UNCHANGED <<boardVars, tt, engine, stopper, tableVars>>

\* Engine::stop on the clone, at any time
CloneStop ==
    /\ stopper # <<>>
    /\ script = <<>>
    /\ ~heap[stopper[1]]
    /\ heap' = [heap EXCEPT ![stopper[1]] = TRUE]
    /\ engine' = With(engine, [stop_sent |-> engine.stop_sent \/ engine.pc # "idle"])
    /\ UNCHANGED <<boardVars, tt, stopper, tableVars>>

\* a store an earlier search left in the slot: Table::store with the key of
\* the root or with another key
PriorStore(key, entry) ==
    /\ engine.pc = "idle"
    /\ script = <<>>
    /\ engine.calls = 0
    /\ engine.priors < MaxPriors
    /\ tt' = [slot |-> store(tt.slot, tt.age, key, entry), age |-> tt.age]
    /\ engine' = With(engine, [priors |-> engine.priors + 1])
    /\ UNCHANGED <<boardVars, heap, stopper, tableVars>>

PriorEntries ==
    {TTEntry(d, v, Upper, NoBest) : d \in 1..MaxDepth, v \in Scores}
    \cup {TTEntry(d, v, b, <<from_sq(m), to_sq(m)>>) :
            d \in 1..MaxDepth, v \in Scores, b \in {Exact, Lower}, m \in RootMoves}

\* best_move_timed up to the call of best_move_single: reset_stop, next_age,
\* the book, the time manager.  bk is the answer of the book.
Started(depth, timed, bk, prev) ==
    /\ heap' = Append(heap, FALSE)
    /\ tt' = [slot |-> tt.slot, age |-> next_age(tt.age)]
    /\ engine' =
         IF bk # NoBookMove
         THEN With(engine, [stop_flag |-> Len(heap) + 1, calls |-> engine.calls + 1,
                            result |-> [move |-> bk, depth |-> 0], book |-> TRUE,
                            stop_sent |-> FALSE, completed |-> FALSE,
                            config |-> depth, timed |-> timed,
                            prev |-> prev])
         ELSE With(engine, [pc |-> "for", stop_flag |-> Len(heap) + 1,
                            time_manager |-> <<Len(heap) + 1>>, timed |-> timed,
                            max_depth |-> Min({depth, MAX_DEPTH}), config |-> depth,
                            prev |-> prev,
                            d |-> 1, guess |-> 0, root_best |-> NoneMove,
                            best_move |-> NoneMove, reached_depth |-> 0,
                            result |-> NoAnswer, calls |-> engine.calls + 1,
                            book |-> FALSE, stop_sent |-> FALSE, completed |-> FALSE])

BestMoveTimed(depth, timed) ==
    /\ engine.pc = "idle"
    /\ script = <<>>
    /\ engine.calls < MaxSearches
    /\ Started(depth, timed, book_move(game.history, game.board, game.current_turn),
               NoCall)
    /\ UNCHANGED <<boardVars, stopper, tableVars>>

\* best_move_timed with TimeConfig::fixed_depth(depth), the call before it
\* being kept for the comparison of the two
BestMoveFixed(depth) ==
    /\ engine.pc = "idle"
    /\ script = <<>>
    /\ engine.calls < MaxSearches
    /\ Started(depth, FALSE, book_move(game.history, game.board, game.current_turn),
               IF engine.calls > 0 THEN Call(engine) ELSE NoCall)
    /\ UNCHANGED <<boardVars, stopper, tableVars>>

\* the end of best_move_single and of best_move_timed
Returned(best_move, reached_depth) ==
    With(engine, [pc |-> "idle", time_manager |-> <<>>, best_move |-> best_move,
                  reached_depth |-> reached_depth,
                  result |-> Answer(best_move, reached_depth)])

\* the head of `for d in 1..=max_depth`: the range, should_continue_iterating
\* (late says that half of the allocated time is gone), the window
ForDepth(late) ==
    /\ engine.pc = "for"
    /\ engine' =
         IF engine.d > engine.max_depth
         THEN Returned(engine.best_move, engine.reached_depth)
         ELSE IF engine.d > 1 /\ (heap[engine.time_manager[1]] \/ late)
         THEN Returned(engine.best_move, engine.reached_depth)
         ELSE With(engine, [pc |-> "loop", fail_lows |-> 0, fail_highs |-> 0,
                            alpha |-> IF engine.d > 1 THEN engine.guess - ASPIRATION ELSE -100000,
                            beta |-> IF engine.d > 1 THEN engine.guess + ASPIRATION ELSE 100000])
    /\ UNCHANGED <<boardVars, tt, heap, stopper, tableVars>>

\* the head of `loop`: a set flag breaks, and the check after the loop ends
\* the search
LoopTop ==
    /\ engine.pc = "loop"
    /\ engine' =
         IF StopFlagSet THEN Returned(engine.best_move, engine.d)
         ELSE With(engine, [pc |-> "pvs"])
    /\ UNCHANGED <<boardVars, tt, heap, stopper, tableVars>>

\* the root pvs, stopped: a frame saw the flag set, or saw the time gone and
\* set the flag; it returns 0 and stores nothing
PvsStopped(timeup) ==
    /\ engine.pc = "pvs"
    /\ StopFlagSet \/ timeup
    /\ heap' = [heap EXCEPT ![engine.stop_flag] = TRUE]
    /\ engine' = With(engine, [pc |-> "scored", score |-> 0])
    /\ UNCHANGED <<boardVars, tt, stopper, tableVars>>

\* the root pvs run to its end; root_best is the move of the root's last
\* store, the packed move whose squares the table now holds
PvsScored(out) ==
    /\ tt' = [slot |-> out.slot, age |-> tt.age]
    /\ engine' = With(engine, [pc |-> "scored", score |-> out.score,
                               root_best |-> IF out.stored THEN out.best
                                             ELSE engine.root_best])

PvsDone(pruned, s, m) ==
    /\ engine.pc = "pvs"
    /\ ~StopFlagSet
    /\ PvsScored(pvs(tt.slot, tt.age, RootKey, engine.d, engine.alpha, engine.beta,
                     IF legal # <<>> THEN <<>>
                     ELSE IF in_check(game.board, game.current_turn) THEN <<-MATE_VALUE>>
                     ELSE <<0>>,
                     pruned, s, m))
    /\ UNCHANGED <<boardVars, heap, stopper, tableVars>>

\* the best move the root reads back from the table
ReadBest(entry) ==
    IF entry # NoEntry /\ entry.best # NoBest
    THEN <<string_to_move(game.board, entry.best[1] % 8, entry.best[1] \div 8,
                          entry.best[2] % 8, entry.best[2] \div 8)>>
    ELSE engine.best_move

\* the two widenings of the aspiration loop
WidenAlpha(alpha) ==
    IF alpha - ASPIRATION * 2 < -100000 THEN -100000 ELSE alpha - ASPIRATION * 2

SameBeta(beta) == beta

WidenBeta(beta) == Min({beta + ASPIRATION * 2, 100000})

\* the rest of the loop body: the flag, the two re-searches with a wider
\* window, and the score inside the window; fail_lows and fail_highs count
\* the re-searches of the iteration, one for each continue of the loop
AfterPvs ==
    /\ engine.pc = "scored"
    /\ engine' =
         IF StopFlagSet THEN Returned(engine.best_move, engine.d)
         ELSE IF engine.score <= engine.alpha
         THEN With(engine, [pc |-> "loop", alpha |-> WidenAlpha(engine.alpha),
                            fail_lows |-> engine.fail_lows + 1])
         ELSE IF engine.score >= engine.beta
         THEN With(engine, [pc |-> "loop", beta |-> WidenBeta(engine.beta),
                            fail_highs |-> engine.fail_highs + 1])
         ELSE With(engine, [pc |-> "for", guess |-> engine.score, completed |-> TRUE,
                            best_move |-> ReadBest(get(tt.slot, RootKey)),
                            reached_depth |-> engine.d, d |-> engine.d + 1])
    /\ UNCHANGED <<boardVars, tt, heap, stopper, tableVars>>

InitEngine == GameInit(EngineLines) /\ EngineInit /\ TableInit

\* self.tt.next_age(), once for each of n calls of best_move_timed that store
\* nothing (the book answers them); of these calls only next_age is kept
TableNextAge(n) ==
    /\ engine.aged < MaxAges
    /\ tt' = [slot |-> tt.slot, age |-> (tt.age + n) % 256]
    /\ engine' = With(engine, [aged |-> engine.aged + 1])
    /\ last' = [op |-> "next_age"]
    /\ UNCHANGED <<game, legal, phase, board, side, moves, stack, nodes, plies, script,
                   heap, stopper, tableVars>>

\* the calls between the search that left an entry and the two searches that
\* follow one another
QuietCalls == {4}

EarlierCalls(n) ==
    /\ engine.pc = "idle"
    /\ script = <<>>
    /\ engine.calls = 0
    /\ engine.priors > 0
    /\ engine.aged = 0
    /\ TableNextAge(n)

\* the depths of TimeConfig::fixed_depth: the small ones, and for a new Game
\* the one of the search binary
ConfigDepths ==
    (1..MaxDepth) \cup (IF game.history = <<>> THEN {FixedDepth} ELSE {})

NextEngine ==
    \/ script # <<>> /\ GameMakeMove(script[1][1], script[1][2])
    \/ EngineClone
    \/ Stop
    \/ CloneStop
    \/ \E key \in {RootKey, OtherKey}, entry \in PriorEntries : PriorStore(key, entry)
    \/ \E depth \in ConfigDepths, timed \in BOOLEAN : BestMoveTimed(depth, timed)
    \/ \E late \in (IF engine.timed THEN BOOLEAN ELSE {FALSE}) : ForDepth(late)
    \/ LoopTop
    \/ \E timeup \in (IF engine.timed THEN BOOLEAN ELSE {FALSE}) : PvsStopped(timeup)
    \/ \E pruned \in BOOLEAN, s \in Scores, m \in RootMoves : PvsDone(pruned, s, m)
    \/ AfterPvs

SpecEngine == InitEngine /\ [][NextEngine]_vars

-----------------------------------------------------------------------------
(* SpecGame: a Game that only Game::make_move touches: an opening, then any
   input, accepted or refused *)

\* the knights go out and come back: the first position is there again
LineKnights ==
    Line(<< <<"g","1","f","3">>, <<"g","8","f","6">>, <<"f","3","g","1">>,
            <<"f","6","g","8">> >>)

InitGame == GameInit(StartLines \cup {LineKnights}) /\ EngineInit /\ TableInit

NextGame == \E m \in NextInputs : GameMakeMove(m[1], m[2])

SpecGame == InitGame /\ [][NextGame]_vars

-----------------------------------------------------------------------------
(* SpecTwice: searches to a fixed depth one after the other on the same
   Engine and the same Game, nothing stopping them; before them the table may
   hold the entry of an earlier search and may have aged *)

InitTwice == GameInit({LineA3}) /\ EngineInit /\ TableInit

NextTwice ==
    \/ script # <<>> /\ GameMakeMove(script[1][1], script[1][2])
    \/ \E key \in {RootKey, OtherKey}, entry \in PriorEntries : PriorStore(key, entry)
    \/ \E n \in QuietCalls : EarlierCalls(n)
    \/ \E depth \in 1..MaxDepth : BestMoveFixed(depth)
    \/ ForDepth(FALSE)
    \/ LoopTop
    \/ \E pruned \in BOOLEAN, s \in Scores, m \in RootMoves : PvsDone(pruned, s, m)
    \/ AfterPvs

SpecTwice == InitTwice /\ [][NextTwice]_vars

\* ------------------------------------------------------------------------
\* The aspiration loop with root scores that move between iterations
\* ------------------------------------------------------------------------

\* values the root pvs can compute at one depth and not at the one before
AspScores == {-300, 0, 300}

InitAsp == GameInit({LineA3}) /\ EngineInit /\ TableInit

NextAsp ==
    \/ script # <<>> /\ GameMakeMove(script[1][1], script[1][2])
    \/ \E depth \in 1..MaxDepth : BestMoveFixed(depth)
    \/ ForDepth(FALSE)
    \/ LoopTop
    \/ \E pruned \in BOOLEAN, s \in AspScores, m \in RootMoves : PvsDone(pruned, s, m)
    \/ AfterPvs

SpecAsp == InitAsp /\ [][NextAsp]_vars

-----------------------------------------------------------------------------
(* The table under threads: Table::get and Table::store one atomic load or
   store at a time, the threads interleaved.  Every access is to the slot of
   the model; the age does not change. *)

\* two keys that share the slot, neither the key 0 of an empty slot
Key1 == {0}
Key2 == {1}
TableKeys == {Key1, Key2}

\* the entries the threads store
TableEntries ==
    {TTEntry(1, 0, Upper, NoBest), TTEntry(1, 100, Exact, <<8, 16>>),
     TTEntry(2, 100, Lower, <<1, 18>>), TTEntry(2, 0, Exact, <<12, 28>>)}

SlotWith(key, value, packed) == [slot |-> RawEntry(key, value, packed), age |-> tt.age]

\* get: entry.key.load(Acquire) == key; another key returns None
GetLoadKey(t, key) ==
    /\ thr[t].pc = "idle"
    /\ done.gets < MaxGets
    /\ thr' = [thr EXCEPT ![t] =
                 IF tt.slot.key = key
                 THEN With(ThreadIdle, [pc |-> "get_value", key |-> key])
                 ELSE With(ThreadIdle, [pc |-> "got", key |-> key])]
    /\ done' = [stores |-> done.stores, gets |-> done.gets + 1]
    /\ UNCHANGED <<boardVars, engineVars>>

\* get: entry.value.load(Relaxed)
GetLoadValue(t) ==
    /\ thr[t].pc = "get_value"
    /\ thr' = [thr EXCEPT ![t] = With(thr[t], [pc |-> "get_packed", value |-> tt.slot.value])]
    /\ UNCHANGED <<boardVars, engineVars, done>>

\* get: entry.packed.load(Relaxed), and the TTEntry built from the two loads
GetLoadPacked(t) ==
    /\ thr[t].pc = "get_packed"
    /\ thr' = [thr EXCEPT ![t] =
                 With(thr[t], [pc |-> "got", ret |-> Unpacked(thr[t].value, tt.slot.packed)])]
    /\ UNCHANGED <<boardVars, engineVars, done>>

\* the caller of get has its answer
GetReturn(t) ==
    /\ thr[t].pc = "got"
    /\ thr' = [thr EXCEPT ![t] = ThreadIdle]
    /\ UNCHANGED <<boardVars, engineVars, done>>

\* store is called: the index, the slot, current_age and packed_new
StoreCall(t, key, entry) ==
    /\ thr[t].pc = "idle"
    /\ Cardinality(done.stores) < MaxStores
    /\ [key |-> key, entry |-> entry] \notin done.stores
    /\ thr' = [thr EXCEPT ![t] = With(ThreadIdle, [pc |-> "load_key", key |-> key, entry |-> entry])]
    /\ done' = [stores |-> done.stores \cup {[key |-> key, entry |-> entry]}, gets |-> done.gets]
    /\ UNCHANGED <<boardVars, engineVars>>

\* store: slot.key.load(Acquire)
StoreLoadKey(t) ==
    /\ thr[t].pc = "load_key"
    /\ thr' = [thr EXCEPT ![t] = With(thr[t], [pc |-> "load_packed", existing_key |-> tt.slot.key])]
    /\ UNCHANGED <<boardVars, engineVars, done>>

\* store: slot.packed.load(Relaxed) and the test on depth and age, made on
\* the key loaded before
StoreLoadPacked(t) ==
    /\ thr[t].pc = "load_packed"
    /\ thr' = [thr EXCEPT ![t] =
                 IF ~Replaces(RawEntry(thr[t].existing_key, 0, tt.slot.packed), tt.age,
                              thr[t].key, thr[t].entry)
                 THEN ThreadIdle
                 ELSE IF thr[t].existing_key # thr[t].key
                 THEN With(thr[t], [pc |-> "write_key"])
                 ELSE With(thr[t], [pc |-> "write_value"])]
    /\ UNCHANGED <<boardVars, engineVars, done>>

\* store: slot.key.store(key, Release)
StoreKey(t) ==
    /\ thr[t].pc = "write_key"
    /\ tt' = SlotWith(thr[t].key, tt.slot.value, tt.slot.packed)
    /\ thr' = [thr EXCEPT ![t] = With(thr[t], [pc |-> "write_value"])]
    /\ UNCHANGED <<boardVars, engine, heap, stopper, done>>

\* store: slot.value.store(entry.value, Relaxed)
StoreValue(t) ==
    /\ thr[t].pc = "write_value"
    /\ tt' = SlotWith(tt.slot.key, thr[t].entry.value, tt.slot.packed)
    /\ thr' = [thr EXCEPT ![t] = With(thr[t], [pc |-> "write_packed"])]
    /\ UNCHANGED <<boardVars, engine, heap, stopper, done>>

\* store: slot.packed.store(packed_new, Relaxed)
StorePacked(t) ==
    /\ thr[t].pc = "write_packed"
    /\ tt' = SlotWith(tt.slot.key, tt.slot.value, packed_new(thr[t].entry, tt.age))
    /\ thr' = [thr EXCEPT ![t] = ThreadIdle]
    /\ UNCHANGED <<boardVars, engine, heap, stopper, done>>

InitTT == GameInit({<<>>}) /\ EngineInit /\ TableInit

NextTT ==
    \/ \E t \in Threads, key \in TableKeys : GetLoadKey(t, key)
    \/ \E t \in Threads : GetLoadValue(t)
    \/ \E t \in Threads : GetLoadPacked(t)
    \/ \E t \in Threads : GetReturn(t)
    \/ \E t \in Threads, key \in TableKeys, entry \in TableEntries : StoreCall(t, key, entry)
    \/ \E t \in Threads : StoreLoadKey(t)
    \/ \E t \in Threads : StoreLoadPacked(t)
    \/ \E t \in Threads : StoreKey(t)
    \/ \E t \in Threads : StoreValue(t)
    \/ \E t \in Threads : StorePacked(t)

SpecTT == InitTT /\ [][NextTT]_vars

-----------------------------------------------------------------------------
(* SpecStore: one caller of the table, as the single search thread is:
   next_age, store and get run one after the other *)

\* Table::store(key, entry), from its first line to its last
TableStore(key, entry) ==
    /\ Cardinality(done.stores) < MaxStores
    /\ tt' = [slot |-> store(tt.slot, tt.age, key, entry), age |-> tt.age]
    /\ last' = [op |-> "store", key |-> key, entry |-> entry, pre |-> tt]
    /\ [key |-> key, entry |-> entry] \notin done.stores
    /\ done' = [stores |-> done.stores \cup {[key |-> key, entry |-> entry]},
                gets |-> done.gets]
    /\ UNCHANGED <<game, legal, phase, board, side, moves, stack, nodes, plies, script,
                   engine, heap, stopper, thr>>

\* Table::get(key); `after` is the store that ran just before it, if one did
TableGet(key) ==
    /\ last.op = "store"
    /\ last' = [op |-> "get", key |-> key, ret |-> get(tt.slot, key), after |-> last]
    /\ UNCHANGED <<game, legal, phase, board, side, moves, stack, nodes, plies, script,
                   engineVars, tableVars>>

InitStore == GameInit({<<>>}) /\ EngineInit /\ TableInit

\* the calls that go by between two uses of the table
AgeSteps == {1, 250}

NextStore ==
    \/ \E n \in AgeSteps : TableNextAge(n)
    \/ \E key \in TableKeys, entry \in TableEntries : TableStore(key, entry)
    \/ \E key \in TableKeys : TableGet(key)

SpecStore == InitStore /\ [][NextStore]_vars

\* ------------------------------------------------------------------------
\* Table::get on any key at any time, on a new table too
\* ------------------------------------------------------------------------

\* the key 0, which RawEntry::default gives every slot
Key0 == {}

ProbeKeys == TableKeys \cup {Key0}

\* Table::get(key), whatever ran before it
TableProbe(key) ==
    /\ last.op # "get"
    /\ last' = [op |-> "get", key |-> key, ret |-> get(tt.slot, key), after |-> last]
    /\ UNCHANGED <<game, legal, phase, board, side, moves, stack, nodes, plies, script,
                   engineVars, tableVars>>

NextProbe ==
    \/ \E key \in ProbeKeys, entry \in TableEntries : TableStore(key, entry)
    \/ \E key \in ProbeKeys : TableProbe(key)

SpecProbe == InitStore /\ [][NextProbe]_vars

-----------------------------------------------------------------------------
(* The recursion of Engine::pvs and Engine::quiescence, frame by frame *)

\* pushed frames of pvs are bounded: positions this deep answer from the table
MaxPly == 1

\* tm.node_count is followed up to this many visits
MaxCount == 2050

RFP_MARGIN == <<0, 150, 250, 350>>
HLP_THRESHOLD == 3
LMP_LIMITS == <<0, 5, 7, 10, 14>>
DELTA == 1000

\* the position the searches start from, set up as the tests do it: Game::new(),
\* a Board::new() in its place, one Board::set per piece
SearchPieces ==
    << <<7, 0, Piece(King, White)>>, <<4, 1, Piece(Pawn, White)>>,
       <<0, 7, Piece(King, Black)>>, <<0, 6, Piece(Pawn, Black)>>,
       <<3, 3, Piece(Pawn, Black)>>, <<5, 4, Piece(Pawn, Black)>> >>

RECURSIVE SetUp(_, _)
SetUp(pieces, k) ==
    IF k = 0 THEN BoardNew
    ELSE set_index(SetUp(pieces, k - 1), pieces[k][1], pieces[k][2], pieces[k][3])

GameSetUp(pieces) == WithBoard(GameNew, SetUp(pieces, Len(pieces)))

\* 1.e4: Black to move with the en-passant target on e3
LineDouble == Line(<< <<"e","2","e","4">> >>)

\* the kings step aside and back: after five plies Black, to move, can repeat
\* the position after the second ply
LineShuffle ==
    Line(<< <<"h","1","g","1">>, <<"a","8","b","8">>, <<"g","1","h","1">>,
            <<"b","8","a","8">>, <<"h","1","g","1">> >>)

SearchLines == {LineDouble, LineShuffle}

\* the root calls of best_move_single: depth d with the window of its iteration,
\* whether a TimeManager is set, and tm.node_count as the earlier iterations
\* left it (without a TimeManager nothing counts)
RootCalls ==
    {<<1, -100000, 100000, FALSE, 0, MaxPly>>, <<2, -50, 50, FALSE, 0, MaxPly>>,
     <<3, -50, 50, FALSE, 0, MaxPly>>, <<1, -100000, 100000, TRUE, 2046, MaxPly>>,
     <<9, -150, -50, TRUE, 2046, MaxPly>>}

\* what Self::evaluate may answer
Evals == {-300, 0, 300}

\* what a probe of the table shared with the other searching threads may find
ProbeEntries ==
    {NoEntry} \cup {TTEntry(MAX_DEPTH, v, bd, NoBest) : v \in Evals, bd \in {Exact, Lower}}

Max(S) == CHOOSE s \in S : \A t \in S : t <= s

piece_count_total(b, color) ==
    Cardinality({sq \in 0..63 : b.squares[sq] # NoPiece /\ b.squares[sq].color = color})

\* ln(n) in thousandths, n = 1..16
LnMilli ==
    <<0, 693, 1099, 1386, 1609, 1792, 1946, 2079,
      2197, 2303, 2398, 2485, 2565, 2639, 2708, 2773>>

lmr_value(depth, idx) ==
    IF depth < 3 \/ idx < 3 THEN 0
    ELSE Min({depth - 1, Max({1, (LnMilli[depth] * LnMilli[idx + 1]) \div 1500000})})

\* the repetition test of pvs: a faulty one that never finds the hash
NeverRepeats(hash, ply, history) == FALSE

\* the repetition test of pvs: below the root, the hash is in search_history
Repeats(hash, ply, history) ==
    ply > 0 /\ \E i \in 1..Len(history) : history[i] = hash

\* a faulty restore after the null move that leaves the target cleared
LeaveEp(b, ep) == b

\* board.en_passant = ep after the null move
RestoreEp(b, ep) == SetEnPassant(b, ep)

Frame(fn, color, depth, alpha, beta, ply, b) ==
    [fn |-> fn, pc |-> "enter", color |-> color, depth |-> depth, alpha |-> alpha,
     beta |-> beta, ply |-> ply, entry |-> b, in_check |-> FALSE, list |-> <<>>,
     idx |-> 0, undo |-> <<>>, ep |-> NoneSq, new_depth |-> 0, skip_quiets |-> FALSE]

Top == stack[Len(stack)]
Callers == SubSeq(stack, 1, Len(stack) - 1)

\* should_stop: its answer, and whether it counted the visit
Stops == StopFlagSet \/ (engine.timed /\ nodes % 2048 = 0 /\ engine.up)
Counted == ~StopFlagSet /\ engine.timed

\* one step of the recursion: the frames, the board, the return register and the
\* trace it leaves; `visit` for a step that starts with should_stop
Step(frames, b, ret, lst, visit) ==
    /\ visit /\ Counted => nodes < MaxCount
    /\ stack' = frames
    /\ board' = b
    /\ engine' = With(engine, [score |-> ret])
    /\ last' = lst
    /\ nodes' = IF visit /\ Counted THEN nodes + 1 ELSE nodes
    /\ heap' = IF visit /\ Stops THEN [heap EXCEPT ![engine.stop_flag] = TRUE] ELSE heap
    /\ UNCHANGED <<game, legal, phase, side, moves, plies, script, tt, stopper, tableVars>>

FrameReturned(f, v, b, flag, how) ==
    [op |-> "return", fn |-> f.fn, ply |-> f.ply, depth |-> f.depth, ret |-> v,
     entry |-> f.entry, left |-> b, stopped |-> flag, how |-> how,
     repeated |-> \E i \in 1..Len(game.hash_history) :
                      game.hash_history[i] = BoardHash(f.entry, f.color),
     on_line |-> \E i \in 1..(Len(stack) - 1) :
                     /\ stack[i].fn = "pvs" /\ stack[i].ply < f.ply
                     /\ BoardHash(stack[i].entry, stack[i].color)
                            = BoardHash(f.entry, f.color)]

\* `return v` of the top frame, the board being b
Return(v, b, how, visit) ==
    Step(Callers, b, v,
         FrameReturned(Top, v, b, StopFlagSet \/ (visit /\ Stops), how), visit)

\* the top frame, now f, calls: the callee starts on board b
Calls(f, callee, b, visit) ==
    /\ callee.fn = "pvs" => callee.ply <= engine.max_ply
    /\ Step(Append(Append(Callers, f), callee), b, engine.score,
            [op |-> "call", fn |-> callee.fn, ply |-> callee.ply, depth |-> callee.depth],
            visit)

\* the top frame goes on as f
Stays(f, b, visit) ==
    Step(Append(Callers, f), b, engine.score, [op |-> "step"], visit)

\* the scores of move_score come from the killer and history tables and the
\* table move: the generated order stands, or the last move scores highest
Ordered(list, late) ==
    IF late /\ Len(list) > 1
    THEN <<list[Len(list)]>> \o SubSeq(list, 1, Len(list) - 1)
    ELSE list

Captures(list) == SelectSeq(list, is_capture)

\* best_move_single clones the board and calls pvs at ply 0
RootCall(call) ==
    /\ phase = "game"
    /\ script = <<>>
    /\ stack = <<>>
    /\ phase' = "search"
    /\ board' = game.board
    /\ side' = game.current_turn
    /\ stack' = <<Frame("pvs", game.current_turn, call[1], call[2], call[3], 0, game.board)>>
    /\ nodes' = call[5]
    /\ engine' = With(engine, [timed |-> call[4], d |-> call[1], alpha |-> call[2],
                               beta |-> call[3], max_ply |-> call[6]])
    /\ last' = [op |-> "call", fn |-> "pvs", ply |-> 0, depth |-> call[1]]
    /\ UNCHANGED <<game, legal, moves, plies, script, tt, heap, stopper, tableVars>>

\* the allocated time of the TimeManager runs out
TimeUp ==
    /\ phase = "search"
    /\ engine.timed
    /\ ~engine.up
    /\ engine' = With(engine, [up |-> TRUE, up_at |-> nodes])
    /\ last' = [op |-> "time_up"]
    /\ UNCHANGED <<game, legal, phase, board, side, moves, stack, nodes, plies, script,
                   tt, heap, stopper, tableVars>>

\* generate_legal_moves and the ordering of pvs, up to the head of the loop
Generate(f, b, late, visit) ==
    LET gen == generate_moves_fast(b, f.color)
    IN  IF Len(gen.list) = 0
        THEN Return(IF f.in_check THEN -MATE_VALUE + f.ply ELSE 0, gen.board, "no move",
                    visit)
        ELSE Stays([f EXCEPT !.pc = "loop", !.list = Ordered(gen.list, late), !.idx = 0],
                   gen.board, visit)

\* the null move of pvs: the target is cleared and the other side searches
NullMove(f, visit) ==
    LET r == IF f.depth > 6 THEN 3 ELSE 2
    IN  Calls([f EXCEPT !.pc = "null", !.ep = board.en_passant],
              Frame("pvs", opposite(f.color), f.depth - 1 - r, -f.beta, -f.beta + 1,
                    f.ply + 1, SetEnPassant(board, NoneSq)),
              SetEnPassant(board, NoneSq), visit)

\* pvs after the probe of the table
Probed(f, eval, late, visit) ==
    IF f.depth = 0
    THEN Calls([f EXCEPT !.pc = "quiet"],
               Frame("quiescence", f.color, 0, f.alpha, f.beta, f.ply, board), board, visit)
    ELSE IF f.depth <= 3 /\ ~f.in_check /\ eval - RFP_MARGIN[f.depth + 1] >= f.beta
    THEN Return(eval, board, "eval", visit)
    ELSE IF ~f.in_check /\ piece_count_total(board, f.color) > 3 /\ f.depth >= 3
    THEN NullMove(f, visit)
    ELSE Generate(f, board, late, visit)

\* pvs from its first line to its first call or return
PvsEnter(entry, eval, late) ==
    /\ stack # <<>>
    /\ Top.fn = "pvs" /\ Top.pc = "enter"
    /\ LET f == Top
           mate_max == MATE_VALUE - f.ply
           beta == Min({f.beta, mate_max})
           alpha == Max({f.alpha, -mate_max})
           hit == entry # NoEntry /\ entry.depth >= f.depth
           alpha2 == IF hit /\ entry.bound = Lower THEN Max({alpha, entry.value})
                     ELSE alpha
       IN  IF Stops THEN Return(0, board, "stop", TRUE)
           ELSE IF Repeats(BoardHash(board, f.color), f.ply, game.hash_history)
           THEN Return(0, board, "repetition", TRUE)
           ELSE IF alpha >= beta THEN Return(alpha, board, "window", TRUE)
           ELSE IF hit /\ entry.bound = Exact THEN Return(entry.value, board, "table", TRUE)
           ELSE IF hit /\ alpha2 >= beta THEN Return(entry.value, board, "table", TRUE)
           ELSE Probed([f EXCEPT !.alpha = alpha2, !.beta = beta,
                                   !.in_check = f.depth > 0 /\ in_check(board, f.color)],
                       eval, late, TRUE)

\* pvs after the null-move search returned
AfterNull(late) ==
    /\ stack # <<>>
    /\ Top.fn = "pvs" /\ Top.pc = "null"
    /\ LET f == Top
           score == -engine.score
           b == RestoreEp(board, f.ep)
           r == IF f.depth > 6 THEN 3 ELSE 2
       IN  IF StopFlagSet THEN Return(0, b, "stop", FALSE)
           ELSE IF score >= f.beta
           THEN IF f.depth > 8
                THEN Calls([f EXCEPT !.pc = "verify"],
                           Frame("pvs", f.color, f.depth - r - 1, f.beta - 1, f.beta,
                                 f.ply, b),
                           b, FALSE)
                ELSE Return(f.beta, b, "null move", FALSE)
           ELSE Generate(f, b, late, FALSE)

\* pvs after the verification search returned
AfterVerify(late) ==
    /\ stack # <<>>
    /\ Top.fn = "pvs" /\ Top.pc = "verify"
    /\ IF engine.score >= Top.beta
       THEN Return(Top.beta, board, "verified", FALSE)
       ELSE Generate(Top, board, late, FALSE)

\* pvs at depth 0 returns what quiescence returned
AfterQuiescence ==
    /\ stack # <<>>
    /\ Top.fn = "pvs" /\ Top.pc = "quiet"
    /\ Return(engine.score, board, "quiescence", FALSE)

\* one round of the move loop of pvs up to its call, or the end of the loop
LoopStep(low) ==
    /\ stack # <<>>
    /\ Top.fn = "pvs" /\ Top.pc = "loop"
    /\ LET f == Top
           idx == f.idx
           next == [f EXCEPT !.idx = idx + 1]
       IN  IF idx >= Len(f.list) THEN Return(f.alpha, board, "searched", FALSE)
           ELSE
           LET m == f.list[idx + 1]
               capture == is_capture(m)
               made == make_move_fast(board, m, f.color)
               gives_check == in_check_fast(made.board, opposite(f.color))
               depth1 == IF gives_check /\ f.depth < MAX_DEPTH - 1 THEN f.depth
                         ELSE f.depth - 1
               lmr == f.depth > 2 /\ ~capture /\ ~f.in_check /\ ~gives_check /\ idx >= 3
               new_depth == IF lmr THEN Max({0, depth1 - lmr_value(f.depth, idx + 1)})
                            ELSE depth1
           IN  IF ~f.in_check /\ ~capture /\ f.depth <= 4
                  /\ idx >= LMP_LIMITS[f.depth + 1]
               THEN Stays(next, board, FALSE)
               ELSE IF f.skip_quiets /\ ~capture THEN Stays(next, board, FALSE)
               ELSE IF ~f.in_check /\ ~capture /\ f.depth <= HLP_THRESHOLD /\ idx > 0 /\ low
               THEN Stays([next EXCEPT !.skip_quiets = TRUE], board, FALSE)
               ELSE Calls([f EXCEPT !.pc = IF idx = 0 THEN "first" ELSE "scout",
                                    !.undo = made.undo, !.new_depth = new_depth],
                          Frame("pvs", opposite(f.color), new_depth,
                                IF idx = 0 THEN -f.beta ELSE -f.alpha - 1, -f.alpha,
                                f.ply + 1, made.board),
                          made.board, FALSE)

\* a faulty load that never finds the flag set
FlagMissed == FALSE

\* self.stop_flag.load(Ordering::Relaxed) after unmake_move_fast
FlagAfterMove == StopFlagSet

\* pvs after a search of the move returned: the re-search, or unmake_move_fast
\* and the rest of the round
AfterChild ==
    /\ stack # <<>>
    /\ Top.fn = "pvs" /\ Top.pc \in {"first", "scout", "full"}
    /\ LET f == Top
           score == -engine.score
           b == unmake_move_fast(board, f.undo, f.color)
       IN  IF f.pc = "scout" /\ score > f.alpha /\ score < f.beta
           THEN Calls([f EXCEPT !.pc = "full"],
                      Frame("pvs", opposite(f.color), f.new_depth, -f.beta, -f.alpha,
                            f.ply + 1, board),
                      board, FALSE)
           ELSE IF FlagAfterMove THEN Return(0, b, "stop", FALSE)
           ELSE IF score >= f.beta THEN Return(f.beta, b, "cutoff", FALSE)
           ELSE Stays([f EXCEPT !.pc = "loop", !.idx = f.idx + 1,
                                !.alpha = Max({f.alpha, score})], b, FALSE)

\* quiescence from its first line to the head of its loop
QEnter(stand_pat, late) ==
    /\ stack # <<>>
    /\ Top.fn = "quiescence" /\ Top.pc = "enter"
    /\ LET f == Top
           alpha == Max({f.alpha, stand_pat})
           gen == generate_moves_fast(board, f.color)
       IN  IF Stops THEN Return(0, board, "stop", TRUE)
           ELSE IF stand_pat >= f.beta THEN Return(f.beta, board, "stand pat", TRUE)
           ELSE IF stand_pat + DELTA < alpha THEN Return(alpha, board, "delta", TRUE)
           ELSE Stays([f EXCEPT !.pc = "loop", !.alpha = alpha,
                                !.list = Ordered(Captures(gen.list), late), !.idx = 0],
                      gen.board, TRUE)

\* one round of the capture loop of quiescence up to its call, or the end of it
QLoopStep(see_bad) ==
    /\ stack # <<>>
    /\ Top.fn = "quiescence" /\ Top.pc = "loop"
    /\ LET f == Top
       IN  IF f.idx >= Len(f.list) THEN Return(f.alpha, board, "searched", FALSE)
           ELSE IF see_bad THEN Stays([f EXCEPT !.idx = f.idx + 1], board, FALSE)
           ELSE LET made == make_move_fast(board, f.list[f.idx + 1], f.color)
                IN  Calls([f EXCEPT !.pc = "child", !.undo = made.undo],
                          Frame("quiescence", opposite(f.color), 0, -f.beta, -f.alpha,
                                f.ply + 1, made.board),
                          made.board, FALSE)

\* quiescence after the search of the capture returned
QAfterChild ==
    /\ stack # <<>>
    /\ Top.fn = "quiescence" /\ Top.pc = "child"
    /\ LET f == Top
           score == -engine.score
           b == unmake_move_fast(board, f.undo, f.color)
       IN  IF StopFlagSet THEN Return(0, b, "stop", FALSE)
           ELSE IF score >= f.beta THEN Return(f.beta, b, "cutoff", FALSE)
           ELSE Stays([f EXCEPT !.pc = "loop", !.idx = f.idx + 1,
                                !.alpha = Max({f.alpha, score})], b, FALSE)

InitSearch ==
    /\ game = GameSetUp(SearchPieces)
    /\ legal = generate_moves_fast(game.board, game.current_turn).list
    /\ phase = "game"
    /\ board = game.board
    /\ side = game.current_turn
    /\ moves = legal
    /\ stack = <<>>
    /\ nodes = 0
    /\ last = [op |-> "new"]
    /\ plies = 0
    /\ script \in SearchLines
    /\ EngineInit
    /\ TableInit

NextSearch ==
    \/ script # <<>> /\ GameMakeMove(script[1][1], script[1][2])
    \/ \E call \in RootCalls : RootCall(call)
    \/ TimeUp
    \/ \E entry \in ProbeEntries, eval \in Evals, late \in BOOLEAN :
           PvsEnter(entry, eval, late)
    \/ \E late \in BOOLEAN : AfterNull(late)
    \/ \E late \in BOOLEAN : AfterVerify(late)
    \/ AfterQuiescence
    \/ \E low \in BOOLEAN : LoopStep(low)
    \/ AfterChild
    \/ \E stand_pat \in Evals, late \in BOOLEAN : QEnter(stand_pat, late)
    \/ \E see_bad \in BOOLEAN : QLoopStep(see_bad)
    \/ QAfterChild

SpecSearch == InitSearch /\ [][NextSearch]_vars

\* ------------------------------------------------------------------------
\* The recursion with Engine::stop called from another thread
\* ------------------------------------------------------------------------

\* the root calls of the searches that are stopped
StopCalls ==
    {<<1, -100000, 100000, FALSE, 0, MaxPly>>, <<2, -50, 50, FALSE, 0, MaxPly>>,
     <<9, -150, -50, TRUE, 2046, MaxPly>>}

\* Engine::stop while the search runs: stop_ply and stop_pc keep where the
\* running frame was when the flag was set
SearchStop ==
    /\ phase = "search"
    /\ stack # <<>>
    /\ ~StopFlagSet
    /\ heap' = [heap EXCEPT ![engine.stop_flag] = TRUE]
    /\ engine' = With(engine, [stop_sent |-> TRUE, stop_ply |-> Top.ply,
                               stop_pc |-> Top.pc])
    /\ UNCHANGED <<boardVars, tt, stopper, tableVars>>

NextStopped ==
    \/ script # <<>> /\ GameMakeMove(script[1][1], script[1][2])
    \/ \E call \in StopCalls : RootCall(call)
    \/ TimeUp
    \/ SearchStop
    \/ \E entry \in ProbeEntries, eval \in Evals, late \in BOOLEAN :
           PvsEnter(entry, eval, late)
    \/ \E late \in BOOLEAN : AfterNull(late)
    \/ \E late \in BOOLEAN : AfterVerify(late)
    \/ AfterQuiescence
    \/ \E low \in BOOLEAN : LoopStep(low)
    \/ AfterChild
    \/ \E stand_pat \in Evals, late \in BOOLEAN : QEnter(stand_pat, late)
    \/ \E see_bad \in BOOLEAN : QLoopStep(see_bad)
    \/ QAfterChild

SpecStopped == InitSearch /\ [][NextStopped]_vars

-----------------------------------------------------------------------------
(* One search followed down its lines *)

\* frames of pvs are followed this deep in the search of the blocked position
MaxLine == 5

\* kings behind blocked pawns: K g1, P g2, P b6 against K b8, P b7, P g3
LinePieces ==
    << <<6, 0, Piece(King, White)>>, <<6, 1, Piece(Pawn, White)>>,
       <<1, 5, Piece(Pawn, White)>>, <<1, 7, Piece(King, Black)>>,
       <<1, 6, Piece(Pawn, Black)>>, <<6, 2, Piece(Pawn, Black)>> >>

\* both kings step into the corner and White is to move
LineCorners == Line(<< <<"g","1","h","1">>, <<"b","8","a","8">> >>)

LineCalls == {<<4, -50, 50, FALSE, 0, MaxLine>>, <<5, -50, 50, FALSE, 0, MaxLine>>}

InitLine ==
    /\ game = GameSetUp(LinePieces)
    /\ legal = generate_moves_fast(game.board, game.current_turn).list
    /\ phase = "game"
    /\ board = game.board
    /\ side = game.current_turn
    /\ moves = legal
    /\ stack = <<>>
    /\ nodes = 0
    /\ last = [op |-> "new"]
    /\ plies = 0
    /\ script = LineCorners
    /\ EngineInit
    /\ TableInit

NextLine ==
    \/ script # <<>> /\ GameMakeMove(script[1][1], script[1][2])
    \/ \E call \in LineCalls : RootCall(call)
    \/ \E entry \in ProbeEntries, eval \in Evals, late \in BOOLEAN :
           PvsEnter(entry, eval, late)
    \/ AfterQuiescence
    \/ \E low \in BOOLEAN : LoopStep(low)
    \/ AfterChild
    \/ \E stand_pat \in Evals, late \in BOOLEAN : QEnter(stand_pat, late)
    \/ \E see_bad \in BOOLEAN : QLoopStep(see_bad)

SpecLine == InitLine /\ [][NextLine]_vars

-----------------------------------------------------------------------------
(* The time manager *)

\* a faulty cap that leaves the allocation as it is
NoCap(allocated, max_time) == allocated

\* allocated.min(max_time)
CapAt(allocated, max_time) == Min({allocated, max_time})

\* estimated_moves of calculate_time
EstimatedMoves(time_left_ms, moves_to_go) ==
    IF moves_to_go # <<>> THEN Max({moves_to_go[1], 1})
    ELSE IF time_left_ms < 30000 THEN 15
    ELSE IF time_left_ms < 60000 THEN 20
    ELSE IF time_left_ms < 180000 THEN 25
    ELSE IF time_left_ms < 300000 THEN 30
    ELSE IF time_left_ms < 600000 THEN 35
    ELSE 40

\* TimeManager::calculate_time: (allocated, max_time, in_crisis)
calculate_time(time_left_ms, increment_ms, moves_to_go) ==
    LET base_time == time_left_ms \div EstimatedMoves(time_left_ms, moves_to_go)
        inc_bonus == (increment_ms * 9) \div 10
        total_time_estimate == time_left_ms + increment_ms * 20
        in_crisis == IF total_time_estimate < 300000 THEN time_left_ms < 1000
                     ELSE time_left_ms < 5000
        allocated == IF in_crisis THEN Min({Max({time_left_ms \div 30, 50}), 500})
                     ELSE base_time + inc_bonus
        max_time == IF increment_ms > 0 THEN (time_left_ms \div 2) + increment_ms
                    ELSE (time_left_ms * 3) \div 10
    IN  [allocated |-> Max({CapAt(allocated, max_time), 10}),
         max_time |-> Max({max_time, 10}), in_crisis |-> in_crisis]

\* u64::MAX, never compared in the model
U64Max == "u64::MAX"

unwrap_or(opt, default) == IF opt = <<>> THEN default ELSE opt[1]

\* TimeManager::new: allocated_time_ms, max_time_ms and in_crisis
TimeManagerOf(config, color) ==
    IF config.movetime # <<>>
    THEN [allocated |-> config.movetime[1], max_time |-> config.movetime[1],
          in_crisis |-> FALSE]
    ELSE IF config.infinite \/ config.depth # <<>>
    THEN [allocated |-> U64Max, max_time |-> U64Max, in_crisis |-> FALSE]
    ELSE calculate_time(
             IF color = White THEN unwrap_or(config.wtime, 60000)
             ELSE unwrap_or(config.btime, 60000),
             IF color = White THEN unwrap_or(config.winc, 0)
             ELSE unwrap_or(config.binc, 0),
             config.movestogo)

\* the clocks, increments and moves to go of the calls, in milliseconds
ClockTimes ==
    {0, 5, 9, 10, 33, 100, 999, 1000, 1500, 4999, 5000, 29999, 30000, 59999, 60000,
     179999, 180000, 299999, 300000, 599999, 600000, 1000000}
Increments == {0, 1, 10, 1000, 10000, 15000}
MovesToGo == {<<>>, <<0>>, <<1>>, <<2>>, <<40>>}

TimeConfigs ==
    [wtime : {<<>>, <<10>>, <<1000>>, <<60000>>, <<600000>>}, btime : {<<>>, <<1000>>},
     winc : {<<>>, <<0>>, <<1000>>, <<10000>>}, binc : {<<>>, <<10000>>},
     movestogo : {<<>>, <<1>>, <<40>>}, depth : {<<>>, <<2>>},
     movetime : {<<>>, <<100>>}, infinite : BOOLEAN]

CalculateTime(time_left_ms, increment_ms, moves_to_go) ==
    /\ last.op = "new"
    /\ last' = [op |-> "calculate_time", time_left_ms |-> time_left_ms,
                increment_ms |-> increment_ms, moves_to_go |-> moves_to_go,
                ret |-> calculate_time(time_left_ms, increment_ms, moves_to_go)]
    /\ UNCHANGED <<game, legal, phase, board, side, moves, stack, nodes, plies, script,
                   engineVars, tableVars>>

TimeManagerNew(config, color) ==
    /\ last.op = "new"
    /\ last' = [op |-> "TimeManager::new", config |-> config, color |-> color,
                ret |-> TimeManagerOf(config, color)]
    /\ UNCHANGED <<game, legal, phase, board, side, moves, stack, nodes, plies, script,
                   engineVars, tableVars>>

InitTime == GameInit({<<>>}) /\ EngineInit /\ TableInit

NextTime ==
    \/ \E t \in ClockTimes, i \in Increments, m \in MovesToGo : CalculateTime(t, i, m)
    \/ \E config \in TimeConfigs, color \in {White, Black} : TimeManagerNew(config, color)

SpecTime == InitTime /\ [][NextTime]_vars

-----------------------------------------------------------------------------
(* best_move_timed on a position with a mate in one *)

\* the position of test_mate_in_one: Ra1-a8 mates
MatePieces ==
    << <<6, 0, Piece(King, White)>>, <<0, 0, Piece(Rook, White)>>,
       <<7, 7, Piece(King, Black)>>, <<6, 6, Piece(Pawn, Black)>>,
       <<7, 6, Piece(Pawn, Black)>> >>

\* the same with a white pawn on e2
MatePiecesE2 == Append(MatePieces, <<4, 1, Piece(Pawn, White)>>)

\* what the caller may play before it asks the engine
MateInputs ==
    {SplitAt2(m) : m \in {<<"a","1","a","7">>, <<"g","1","f","1">>, <<"a","1","a","8">>}}

InitMate ==
    /\ game \in {GameSetUp(MatePieces), GameSetUp(MatePiecesE2)}
    /\ legal = generate_moves_fast(game.board, game.current_turn).list
    /\ phase = "game"
    /\ board = game.board
    /\ side = game.current_turn
    /\ moves = legal
    /\ stack = <<>>
    /\ nodes = 0
    /\ last = [op |-> "new"]
    /\ plies = 0
    /\ script = <<>>
    /\ EngineInit
    /\ TableInit

NextMate ==
    \/ engine.pc = "idle" /\ \E m \in MateInputs : GameMakeMove(m[1], m[2])
    \/ \E depth \in 1..MaxDepth, timed \in BOOLEAN : BestMoveTimed(depth, timed)
    \/ \E late \in (IF engine.timed THEN BOOLEAN ELSE {FALSE}) : ForDepth(late)
    \/ LoopTop
    \/ \E timeup \in (IF engine.timed THEN BOOLEAN ELSE {FALSE}) : PvsStopped(timeup)
    \/ \E pruned \in BOOLEAN, s \in Scores, m \in RootMoves : PvsDone(pruned, s, m)
    \/ AfterPvs

SpecMate == InitMate /\ [][NextMate]_vars

\* ------------------------------------------------------------------------
\* best_move_timed on a position whose root moves are promotions
\* ------------------------------------------------------------------------

\* White: Kg1, Pb7.  Black: Kh6, Ra8.  The pawn promotes on b8 and, with a
\* capture, on a8.
PromoPieces ==
    << <<6, 0, Piece(King, White)>>, <<1, 6, Piece(Pawn, White)>>,
       <<7, 5, Piece(King, Black)>>, <<0, 7, Piece(Rook, Black)>> >>

\* the promotions among the legal moves of the root
PromoMoves == {legal[i] : i \in {j \in 1..Len(legal) : is_promotion(legal[j])}}

\* what the caller may play before it asks the engine
PromoInputs == {SplitAt2(m) : m \in {<<"g","1","f","1">>, <<"a","8","a","7">>}}

InitPromo ==
    /\ game = GameSetUp(PromoPieces)
    /\ legal = generate_moves_fast(game.board, game.current_turn).list
    /\ phase = "game"
    /\ board = game.board
    /\ side = game.current_turn
    /\ moves = legal
    /\ stack = <<>>
    /\ nodes = 0
    /\ last = [op |-> "new"]
    /\ plies = 0
    /\ script = <<>>
    /\ EngineInit
    /\ TableInit

NextPromo ==
    \/ engine.pc = "idle" /\ \E m \in PromoInputs : GameMakeMove(m[1], m[2])
    \/ \E depth \in 1..MaxDepth : BestMoveTimed(depth, FALSE)
    \/ ForDepth(FALSE)
    \/ LoopTop
    \/ \E pruned \in BOOLEAN, s \in Scores, m \in RootMoves \cup PromoMoves :
          PvsDone(pruned, s, m)
    \/ AfterPvs

SpecPromo == InitPromo /\ [][NextPromo]_vars

-----------------------------------------------------------------------------
(* Properties of the board: round trips, lock-step, move rules *)

Unmakes == {"unmake_move_fast", "unmake_move"}

\* C1: make_move_fast followed by unmake_move_fast with the returned
\* UndoState, and make_move_state followed by unmake_move with the returned
\* MoveState, restore the board exactly: squares, bitboards, castling
\* rights, en-passant target and Zobrist hash equal their pre-move values,
\* for every move of the legal move list of the side to move.
C1_RoundTrip ==
    last.op \in Unmakes =>
        /\ board.squares = last.before.squares
        /\ board.bitboards = last.before.bitboards
        /\ board.castling = last.before.castling
        /\ board.en_passant = last.before.en_passant
        /\ board.hash = last.before.hash

\* C1 witness: on the board of a game played from the start, a capturing
\* promotion was made with make_move_fast, changed the board, and has been
\* unmade.
C1_Witness ==
    /\ last.op = "unmake_move_fast"
    /\ last.before = game.board
    /\ Len(game.history) >= 8
    /\ is_promotion(last.undo.mv)
    /\ is_capture(last.undo.mv)
    /\ last.made.squares # last.before.squares
    /\ last.made.hash # last.before.hash
    /\ board = last.before

\* the bitboards that have the bit of square i set
BoardsWith(b, i) == {t \in (0..1) \X (0..5) : i \in b.bitboards[t[1]][t[2]]}

\* the XOR of the Zobrist keys of the pieces standing on squares lo..hi
RECURSIVE SquaresHash(_, _, _)
SquaresHash(b, lo, hi) ==
    IF lo = hi
    THEN IF is_some(b.squares[lo])
         THEN ZOBRIST(color_idx(b.squares[lo].color),
                      piece_index(b.squares[lo].piece_type), lo)
         ELSE {}
    ELSE Xor(SquaresHash(b, lo, (lo + hi) \div 2),
             SquaresHash(b, (lo + hi) \div 2 + 1, hi))

LockStep(b) ==
    /\ \A i \in 0..63 :
           BoardsWith(b, i) =
               IF is_some(b.squares[i])
               THEN {<<color_idx(b.squares[i].color), piece_index(b.squares[i].piece_type)>>}
               ELSE {}
    /\ b.hash = SquaresHash(b, 0, 63)
    /\ b.hash = RecomputedHash(b)

\* C8: after any sequence of set_index, make_move_state / unmake_move and
\* make_move_fast / unmake_move_fast, every occupied square has its bit set
\* in exactly the bitboard of its piece's colour and type, an empty square
\* has no bit in any bitboard, and the hash equals the XOR of the Zobrist
\* keys of all pieces, the value recompute_hash computes from scratch.
C8_LockStep == LockStep(game.board) /\ LockStep(board)

\* C8 witness: the search board was edited with set_index, a capture was
\* made on it with make_move_state and unmade with unmake_move, and the game
\* board has had moves made on it.
C8_Witness ==
    /\ last.op = "unmake_move"
    /\ is_some(last.undo.captured)
    /\ board # game.board
    /\ game.history # <<>>
    /\ LockStep(board)

Makes == {"make_move_fast", "make_move_state"}

\* the square a made move went to, as <<x, y>>
MadeTo == IF last.op = "Game::make_move" THEN algebraic_to_index(last.end)
          ELSE <<to_sq(last.mv) % 8, to_sq(last.mv) \div 8>>

\* the board before and after the move last made, and the side that made it
MadeFrom == IF last.op = "Game::make_move" THEN last.pre.board ELSE last.pre
MadeBoard == IF last.op = "Game::make_move" THEN game.board ELSE board
MadeBy == IF last.op = "Game::make_move" THEN last.pre.current_turn ELSE last.color

MoveWasMade == last.op \in Makes \/ (last.op = "Game::make_move" /\ last.ret)

HomeRank(color) == IF color = White THEN 0 ELSE 7

\* the piece on (x, y) is a rook of `owner` standing on one of its two corners
CornerRook(b, x, y, owner) ==
    /\ get_index(b, x, y) = Piece(Rook, owner)
    /\ x \in {0, 7}
    /\ y = HomeRank(owner)

\* C9: whenever a move captures a rook standing on its original corner
\* square, the castling right of the rook's owner on that side is false
\* afterwards, for make_move_fast and for make_move_state, the latter also
\* when called by Game::make_move.
C9_CornerCapture ==
    (MoveWasMade /\ CornerRook(MadeFrom, MadeTo[1], MadeTo[2], opposite(MadeBy))) =>
        ~MadeBoard.castling[color_idx(opposite(MadeBy))][IF MadeTo[1] = 7 THEN 0 ELSE 1]

\* the pawns standing on rank 1 or rank 8
LastRankPawns(b) ==
    {i \in (0..7) \cup (56..63) : b.squares[i].piece_type = Pawn}

\* C10: after any move made through Game::make_move, make_move_state or
\* make_move_fast, no pawn stands on rank 1 or rank 8.
C10_NoPawnOnLastRank == MoveWasMade => LastRankPawns(MadeBoard) = {}

\* (start, end) names the from and to squares of a move of the list
InList(list, start, end) ==
    /\ algebraic_to_index(start) # NoneSq
    /\ algebraic_to_index(end) # NoneSq
    /\ \E i \in 1..Len(list) :
           /\ from_sq(list[i]) = algebraic_to_index(start)[2] * 8 + algebraic_to_index(start)[1]
           /\ to_sq(list[i]) = algebraic_to_index(end)[2] * 8 + algebraic_to_index(end)[1]

\* C2: Game::make_move(start, end) returns false and leaves the whole Game
\* unchanged whenever (start, end) is not in the list the legal move
\* generator produces for the current position and side to move.
C2_IllegalRefused ==
    (/\ last.op = "Game::make_move"
     /\ ~InList(generate_moves_fast(last.pre.board, last.pre.current_turn).list,
                last.start, last.end)) =>
        (~last.ret /\ game = last.pre)

-----------------------------------------------------------------------------
(* The moves of chess, written from the rules of the game and not from the
   code: what the generator's list is compared with.  sqs is the squares
   array, a square is its index y * 8 + x. *)

ChessOn(x, y) == x \in 0..7 /\ y \in 0..7

ChessKnightSteps ==
    {<<1, 2>>, <<2, 1>>, <<2, -1>>, <<1, -2>>, <<-1, -2>>, <<-2, -1>>, <<-2, 1>>, <<-1, 2>>}
ChessKingSteps ==
    {<<1, 0>>, <<1, 1>>, <<0, 1>>, <<-1, 1>>, <<-1, 0>>, <<-1, -1>>, <<0, -1>>, <<1, -1>>}
ChessDiagonals == {<<1, 1>>, <<1, -1>>, <<-1, 1>>, <<-1, -1>>}
ChessLines == {<<1, 0>>, <<-1, 0>>, <<0, 1>>, <<0, -1>>}

ChessForward(color) == IF color = White THEN 1 ELSE -1

\* the squares one step away from square i
ChessStep(i, steps) ==
    {(i \div 8 + d[2]) * 8 + (i % 8) + d[1] :
        d \in {e \in steps : ChessOn((i % 8) + e[1], i \div 8 + e[2])}}

\* the squares seen from square i along the directions: up to and including
\* the first occupied one
ChessSlide(sqs, i, dirs) ==
    UNION {{(i \div 8 + k * d[2]) * 8 + (i % 8) + k * d[1] :
               k \in {n \in 1..7 :
                   /\ ChessOn((i % 8) + n * d[1], i \div 8 + n * d[2])
                   /\ \A j \in 1..(n - 1) :
                          is_none(sqs[(i \div 8 + j * d[2]) * 8 + (i % 8) + j * d[1]])}} :
           d \in dirs}

\* a piece of colour `by` attacks square t
ChessAttacked(sqs, t, by) ==
    \/ \E s \in ChessStep(t, ChessKnightSteps) : sqs[s] = Piece(Knight, by)
    \/ \E s \in ChessStep(t, ChessKingSteps) : sqs[s] = Piece(King, by)
    \/ \E s \in ChessStep(t, {<<-1, -ChessForward(by)>>, <<1, -ChessForward(by)>>}) :
           sqs[s] = Piece(Pawn, by)
    \/ \E s \in ChessSlide(sqs, t, ChessDiagonals) :
           sqs[s] \in {Piece(Bishop, by), Piece(Queen, by)}
    \/ \E s \in ChessSlide(sqs, t, ChessLines) :
           sqs[s] \in {Piece(Rook, by), Piece(Queen, by)}

\* the squares the pawn of `color` on i may go to
ChessPawnTo(b, i, color) ==
    {t \in ChessStep(i, {<<-1, ChessForward(color)>>, <<1, ChessForward(color)>>}) :
        \/ b.squares[t].color = opposite(color)
        \/ is_none(b.squares[t]) /\ b.en_passant = <<t % 8, t \div 8>>}
    \cup {t \in ChessStep(i, {<<0, ChessForward(color)>>}) : is_none(b.squares[t])}
    \cup {t \in ChessStep(i, {<<0, 2 * ChessForward(color)>>}) :
            /\ i \div 8 = (IF color = White THEN 1 ELSE 6)
            /\ is_none(b.squares[t])
            /\ is_none(b.squares[i + 8 * ChessForward(color)])}

\* castling: the right is held, king and rook stand on their squares, the
\* squares between them are empty, the king is not in check and does not
\* cross an attacked square
ChessCastleTo(b, i, color) ==
    IF i # HomeRank(color) * 8 + 4 THEN {}
    ELSE {i + 2 :
             k \in {n \in {0} :
                 /\ b.castling[color_idx(color)][0]
                 /\ b.squares[i + 3] = Piece(Rook, color)
                 /\ is_none(b.squares[i + 1]) /\ is_none(b.squares[i + 2])
                 /\ ~ChessAttacked(b.squares, i, opposite(color))
                 /\ ~ChessAttacked(b.squares, i + 1, opposite(color))}}
         \cup
         {i - 2 :
             k \in {n \in {0} :
                 /\ b.castling[color_idx(color)][1]
                 /\ b.squares[i - 4] = Piece(Rook, color)
                 /\ is_none(b.squares[i - 1]) /\ is_none(b.squares[i - 2])
                 /\ is_none(b.squares[i - 3])
                 /\ ~ChessAttacked(b.squares, i, opposite(color))
                 /\ ~ChessAttacked(b.squares, i - 1, opposite(color))}}

\* the squares the piece on i may go to, the king's safety aside
ChessTo(b, i, color) ==
    LET pt == b.squares[i].piece_type
        free(S) == {t \in S : b.squares[t].color # color}
    IN  CASE pt = Pawn -> ChessPawnTo(b, i, color)
          [] pt = Knight -> free(ChessStep(i, ChessKnightSteps))
          [] pt = Bishop -> free(ChessSlide(b.squares, i, ChessDiagonals))
          [] pt = Rook -> free(ChessSlide(b.squares, i, ChessLines))
          [] pt = Queen -> free(ChessSlide(b.squares, i, ChessDiagonals \cup ChessLines))
          [] pt = King -> free(ChessStep(i, ChessKingSteps)) \cup ChessCastleTo(b, i, color)
          [] OTHER -> {}

\* the squares after the piece on i went to t: an en-passant capture removes
\* the pawn beside i, castling brings the rook to the king's other side
ChessAfter(sqs, i, t) ==
    LET pt == sqs[i].piece_type
        ep == pt = Pawn /\ (t % 8) # (i % 8) /\ is_none(sqs[t])
        castle == pt = King /\ Abs((t % 8) - (i % 8)) = 2
        rook_from == IF t > i THEN i + 3 ELSE i - 4
        rook_to == IF t > i THEN i + 1 ELSE i - 1
    IN  [j \in 0..63 |->
            IF j = t THEN sqs[i]
            ELSE IF j = i THEN NoPiece
            ELSE IF ep /\ j = (i \div 8) * 8 + (t % 8) THEN NoPiece
            ELSE IF castle /\ j = rook_from THEN NoPiece
            ELSE IF castle /\ j = rook_to THEN sqs[rook_from]
            ELSE sqs[j]]

ChessKingSafe(sqs, color) ==
    \A k \in 0..63 : sqs[k] = Piece(King, color) => ~ChessAttacked(sqs, k, opposite(color))

\* the legal moves of `color`, as <<from, to>>
ChessLegal(b, color) ==
    UNION {{<<i, t>> : t \in {u \in ChessTo(b, i, color) :
                                 ChessKingSafe(ChessAfter(b.squares, i, u), color)}} :
           i \in {j \in 0..63 : b.squares[j].color = color}}

\* the moves of a MoveList, as <<from, to>>
ListMoves(list) == {<<from_sq(list[n]), to_sq(list[n])>> : n \in 1..Len(list)}

\* a pawn reaching the last rank is listed once for each of the four pieces
FourPromotions(b, list) ==
    \A n \in 1..Len(list) :
        (b.squares[from_sq(list[n])].piece_type = Pawn /\ to_sq(list[n]) \div 8 \in {0, 7}) =>
            {promotion_piece(list[k]) :
                k \in {j \in 1..Len(list) : /\ from_sq(list[j]) = from_sq(list[n])
                                             /\ to_sq(list[j]) = to_sq(list[n])}}
              = {Queen, Rook, Bishop, Knight}

\* h is one of the openings, or the beginning of one
IsScripted(h) == \E l \in StartLines : Len(h) <= Len(l) /\ h = SubSeq(l, 1, Len(h))

\* the game was played with legal moves only: an opening, and at most one
\* more move, taken from the generator's list
LawfulGame ==
    \/ IsScripted(game.history)
    \/ /\ last.op = "Game::make_move"
       /\ last.ret
       /\ IsScripted(last.pre.history)
       /\ InList(generate_moves_fast(last.pre.board, last.pre.current_turn).list,
                 last.start, last.end)

Exactly(b, color, list) ==
    /\ ListMoves(list) = ChessLegal(b, color)
    /\ FourPromotions(b, list)

\* C4: for every position reachable from the start by legal moves,
\* generate_moves_fast for the side to move returns exactly the legal moves:
\* no returned move leaves the mover's king attacked and no legal move is
\* missing; the starting position yields 20 moves for each side.
C4_ExactlyLegal ==
    (phase = "game" /\ LawfulGame) =>
        /\ Exactly(game.board, game.current_turn,
                   generate_moves_fast(game.board, game.current_turn).list)
        /\ game.history = <<>> =>
               /\ Len(generate_moves_fast(game.board, White).list) = 20
               /\ Len(generate_moves_fast(game.board, Black).list) = 20

-----------------------------------------------------------------------------
(* What an accepted Game::make_move leaves *)

\* `color` is in check and has no legal move
ChessMated(b, color) == ChessLegal(b, color) = {} /\ ~ChessKingSafe(b.squares, color)

Accepted == last.op = "Game::make_move" /\ last.ret

\* the piece on the square named pos
PieceOn(b, pos) ==
    get_index(b, algebraic_to_index(pos)[1], algebraic_to_index(pos)[2])

\* the hash of the position Game::make_move left
NewHash == BoardHash(game.board, game.current_turn)

\* the count of h in a HashMap, 0 when it has no such key
CountOf(hc, h) == IF h \in DOMAIN hc THEN hc[h] ELSE 0

\* C11: an accepted Game::make_move has applied the move to the board (the
\* start square is empty and the end square holds a piece of the mover),
\* flipped current_turn, appended (start, end) to history, appended the new
\* position hash to hash_history and raised hash_counts for that hash by
\* exactly one, leaving the other counts alone; result is the mover's colour
\* if the side now to move is in check and has no legal move, and is what it
\* was otherwise.
C11_AcceptedMove ==
    Accepted =>
        /\ is_none(PieceOn(game.board, last.start))
        /\ PieceOn(game.board, SubSeq(last.end, 1, 2)).color = last.pre.current_turn
        /\ game.current_turn = opposite(last.pre.current_turn)
        /\ game.history = Append(last.pre.history, <<last.start, last.end>>)
        /\ game.hash_history = Append(last.pre.hash_history, NewHash)
        /\ DOMAIN game.hash_counts = DOMAIN last.pre.hash_counts \cup {NewHash}
        /\ \A h \in DOMAIN game.hash_counts :
               game.hash_counts[h] =
                   CountOf(last.pre.hash_counts, h) + (IF h = NewHash THEN 1 ELSE 0)
        /\ game.result = IF ChessMated(game.board, game.current_turn)
                         THEN last.pre.current_turn ELSE last.pre.result

\* C11 witness: Black has just mated, and the mate is recorded
C11_Witness ==
    /\ Accepted
    /\ ChessMated(game.board, game.current_turn)
    /\ last.pre.result = NoResult
    /\ game.result = Black
    /\ game.hash_counts[NewHash] = 1

-----------------------------------------------------------------------------
(* The engine's answer *)

\* best_move_timed has returned
Answered == engine.pc = "idle" /\ engine.calls > 0

\* C3: a move best_move_timed returns, from the book or from the root entry
\* of the table, is in the list the legal move generator builds for
\* game.board and game.current_turn.
C3_AnswerIsLegal ==
    (Answered /\ engine.result # NoAnswer)
        => InList(legal,
                  engine.result.move[1], SubSeq(engine.result.move[2], 1, 2))

\* C5: when the side to move has a legal move and an iteration of the root
\* search ended with the stop flag clear and its score inside the window,
\* best_move_timed returns a move, whatever the table held before.
C5_SomeAfterIteration ==
    (Answered /\ ~engine.book /\ engine.completed /\ legal # <<>>)
        => engine.result # NoAnswer

\* C6: a stop() call made from outside while the search of best_move_timed
\* runs sets the flag this search polls.
C6_StopReachesSearch ==
    (engine.pc # "idle" /\ engine.stop_sent) => StopFlagSet

-----------------------------------------------------------------------------
(* The table under threads *)

\* C7: what get returns while stores run on the slot is None or the depth,
\* value, bound and best move of one single store call made with the key
\* get was asked for.
C7_GetReturnsOneStore ==
    \A t \in Threads :
        (thr[t].pc = "got" /\ thr[t].ret # NoEntry)
            => [key |-> thr[t].key, entry |-> thr[t].ret] \in done.stores

\* C15: from the starting position (a new Game, no move played),
\* best_move_timed with a fixed depth of 6 returns a move of the legal list
\* and reports the depth 6.
C15_StartDepthSix ==
    (Answered /\ game.history = <<>> /\ engine.config = FixedDepth) =>
        /\ engine.result # NoAnswer
        /\ InList(legal,
                  engine.result.move[1], SubSeq(engine.result.move[2], 1, 2))
        /\ engine.result.depth = FixedDepth

-----------------------------------------------------------------------------
(* The en passant square *)

\* the square a made move left, as <<x, y>>
MadeStart == IF last.op = "Game::make_move" THEN algebraic_to_index(last.start)
             ELSE <<from_sq(last.mv) % 8, from_sq(last.mv) \div 8>>

\* the rank the pawns of `color` start on
PawnRank(color) == IF color = White THEN 1 ELSE 6

\* the move last made took a pawn two squares up its file, off its start rank
DoublePush ==
    /\ get_index(MadeFrom, MadeStart[1], MadeStart[2]) = Piece(Pawn, MadeBy)
    /\ MadeStart[2] = PawnRank(MadeBy)
    /\ MadeTo[1] = MadeStart[1]
    /\ MadeTo[2] = MadeStart[2] + 2 * ChessForward(MadeBy)

\* C17: after any move made, en_passant is Some exactly when the move was a
\* pawn double push from the pawn's starting rank, and it is then the square
\* the pawn passed over (rank 3 for White, rank 6 for Black); every other
\* move leaves en_passant = None.
C17_EnPassantSquare ==
    MoveWasMade =>
        MadeBoard.en_passant =
            IF DoublePush THEN <<MadeStart[1], MadeStart[2] + ChessForward(MadeBy)>>
            ELSE NoneSq

-----------------------------------------------------------------------------
(* Castling in the generated list *)

\* the moves of a list that take the king of `color` two files along its rank
CastleMoves(b, color, list) ==
    {mv \in ListMoves(list) :
        /\ b.squares[mv[1]] = Piece(King, color)
        /\ Abs((mv[2] % 8) - (mv[1] % 8)) = 2}

\* the squares between the king on e and the rook's corner on the wing of `to`
BetweenKingAndRook(from, to) ==
    IF to > from THEN {from + 1, from + 2} ELSE {from - 1, from - 2, from - 3}

\* the king of `color` may castle from `from` to `to`: it stands on its
\* square with the right of that wing, it is not in check, the square it
\* crosses and the one it lands on are not attacked, and the squares between
\* it and the rook's corner are empty
CastleAllowed(b, color, from, to) ==
    /\ from = HomeRank(color) * 8 + 4
    /\ b.castling[color_idx(color)][IF to > from THEN 0 ELSE 1]
    /\ ~ChessAttacked(b.squares, from, opposite(color))
    /\ \A s \in {(from + to) \div 2, to} : ~ChessAttacked(b.squares, s, opposite(color))
    /\ \A s \in BetweenKingAndRook(from, to) : is_none(b.squares[s])

CastlesAllowed(b, color, list) ==
    \A mv \in CastleMoves(b, color, list) : CastleAllowed(b, color, mv[1], mv[2])

\* C18: generate_moves_fast lists a castling move for a side only if that
\* side's king is not in check, no square the king crosses or lands on is
\* attacked by the opponent, every square between the king and the rook's
\* corner is empty and the castling right of that wing is set; checked for
\* the list of the game and for the lists of the search board.
C18_CastleOnlyWhenAllowed ==
    /\ phase = "game" =>
           CastlesAllowed(game.board, game.current_turn,
                          generate_moves_fast(game.board, game.current_turn).list)
    /\ phase = "search" => CastlesAllowed(board, side, moves)

\* C18 witness: after 1.e4 e5 2.Nf3 Nc6 3.Bc4 Bc5 the list holds e1g1
C18_Witness ==
    /\ game.history = LineItalian
    /\ <<4, 6>> \in CastleMoves(game.board, White,
                                generate_moves_fast(game.board, White).list)
    /\ CastleAllowed(game.board, White, 4, 6)

-----------------------------------------------------------------------------
(* The replacement rule of the table *)

\* the store st found a slot it had to overwrite: another key's entry that
\* is not deeper or is more than 5 ages old, or the same key's entry that is
\* not deeper
Overwrites(st) ==
    \/ st.entry.depth >= st.pre.slot.packed.depth
    \/ /\ st.pre.slot.key # st.key
       /\ (st.pre.age - st.pre.slot.packed.age) % 256 > 5

\* C16: a sequential store(key, e) overwrites the slot if and only if
\* e.depth >= the stored depth or, for a slot that holds another key,
\* (current age - stored age) mod 256 > 5; otherwise key, value and packed
\* word of the slot are unchanged.  After an overwriting store the slot holds
\* the key, and get(key) returns e's depth, value, bound and best move.
C16_StoreRule ==
    /\ last.op = "store" =>
           IF Overwrites(last)
           THEN /\ tt.slot.key = last.key
                /\ tt.slot.value = last.entry.value
                /\ tt.slot.packed.depth = last.entry.depth
                /\ tt.slot.packed.age = last.pre.age
           ELSE tt.slot = last.pre.slot
    /\ (last.op = "get" /\ last.key = last.after.key /\ Overwrites(last.after)) =>
           last.ret = last.after.entry

\* C16 witness: a shallower entry has replaced another key's deeper one
\* because that one was more than 5 ages old, the age having wrapped, and get
\* has returned it
C16_Witness ==
    /\ last.op = "get"
    /\ last.key = last.after.key
    /\ last.after.pre.slot.key # last.key
    /\ last.after.entry.depth < last.after.pre.slot.packed.depth
    /\ last.after.pre.age < last.after.pre.slot.packed.age
    /\ last.ret = last.after.entry

-----------------------------------------------------------------------------
(* Two searches in a row *)

\* C14: two consecutive best_move_timed calls on the same Engine, with the
\* same unchanged Game and the same fixed-depth config, return the same
\* result: the same move and the same reported depth.
C14_SameAnswerTwice ==
    (/\ Answered
     /\ engine.prev # NoCall
     /\ ~engine.timed
     /\ ~engine.prev.timed
     /\ engine.prev.config = engine.config) =>
        engine.result = engine.prev.result

-----------------------------------------------------------------------------
(* Properties of the recursion: repetition, cancellation, the board *)

\* C12: during a search, every pvs node at ply > 0 whose position hash, side
\* to move included, equals a hash copied from the game's hash_history returns
\* 0, whatever its depth, its window and what the table holds for it; the
\* root, at ply 0, is not tested.
C12_RepetitionDraw ==
    (last.op = "return" /\ last.fn = "pvs" /\ last.ply > 0 /\ last.repeated)
        => last.ret = 0

\* a node below the root returned 0 out of the repetition test, the stop flag
\* down; the root itself stands in the history too
C12_Witness ==
    /\ last.op = "return" /\ last.fn = "pvs" /\ last.ply > 0
    /\ last.repeated /\ last.how = "repetition" /\ ~last.stopped
    /\ last.ret = 0
    /\ \E i \in 1..Len(game.hash_history) :
           game.hash_history[i] = BoardHash(game.board, game.current_turn)

\* C20: every call of pvs and of quiescence returns with the board as it was
\* on entry (squares, bitboards, castling rights, en-passant target, hash) on
\* every return path; between two rounds of a move loop every move made has
\* been unmade, so the board is the one of the entry again.
C20_BoardRestored ==
    /\ last.op = "return" => last.left = last.entry
    /\ (stack # <<>> /\ Top.pc = "loop") => board = Top.entry

\* pvs returned beta out of the null-move search of a position with an
\* en-passant target, which was cleared for the search and is back
C20_Witness ==
    /\ last.op = "return" /\ last.fn = "pvs" /\ last.how = "null move"
    /\ last.entry.en_passant # NoneSq
    /\ last.left = last.entry

\* C19: with a TimeManager, once the allocated time is used up the stop flag
\* is raised within 2048 further visits of should_stop: no visit whose count
\* is a multiple of 2048 passes with the flag down; and every frame of pvs and
\* quiescence that returns with the flag raised returns 0.
C19_StopUnwinds ==
    /\ (engine.timed /\ engine.up /\ ~StopFlagSet) =>
           /\ nodes - engine.up_at <= 2048
           /\ \A c \in engine.up_at..(nodes - 1) : c % 2048 # 0
    /\ (last.op = "return" /\ last.stopped) => last.ret = 0

-----------------------------------------------------------------------------
(* The mate in one *)

\* the moves of the list after which the other side is mated
MatingMoves(b, color, list) ==
    {i \in 1..Len(list) :
        LET made == make_move_fast(b, list[i], color).board
        IN  /\ Len(generate_moves_fast(made, opposite(color)).list) = 0
            /\ in_check(made, opposite(color))}

\* C13: when the side to move has a move that mates at once, a fixed-depth
\* call of depth >= 2 on a fresh engine returns a mating move; stated for
\* the calls best_move_timed answers before it searches.
C13_MateInOne ==
    (/\ Answered /\ engine.calls = 1 /\ engine.book
     /\ ~engine.timed /\ engine.config >= 2
     /\ MatingMoves(game.board, game.current_turn, legal) # {})
        => \E i \in MatingMoves(game.board, game.current_turn, legal) :
               /\ MoveStrings(legal[i])[1] = engine.result.move[1]
               /\ SubSeq(MoveStrings(legal[i])[2], 1, 2) = SubSeq(engine.result.move[2], 1, 2)

-----------------------------------------------------------------------------
(* Repetition on the line of the search *)

\* C21: a pvs node whose position already occurred earlier on the line that
\* leads to it, and not in the game, is taken for a repetition and returns 0.
C21_LineRepetition ==
    (last.op = "return" /\ last.fn = "pvs" /\ last.on_line /\ ~last.repeated)
        => last.ret = 0

-----------------------------------------------------------------------------
(* The time of a move *)

\* the clock of the side to move as TimeManager::new reads it
OwnTime(config, color) == IF color = White THEN config.wtime ELSE config.btime

ClockBased(config) == config.movetime = <<>> /\ config.depth = <<>> /\ ~config.infinite

\* C22: calculate_time returns allocated <= max_time, both at least 10 ms;
\* max_time is time_left/2 + increment with an increment and 3*time_left/10
\* without; allocated is time_left/estimated_moves + 9*increment/10, in
\* crisis time_left/30 clamped to [50, 500] instead, then capped by max_time;
\* estimated_moves is max(movestogo, 1), or 15, 20, 25, 30, 35, 40 as
\* time_left reaches 30, 60, 180, 300, 600 seconds.
C22_CalculateTime ==
    last.op = "calculate_time" =>
        LET t == last.time_left_ms
            inc == last.increment_ms
            est == IF last.moves_to_go # <<>>
                   THEN (IF last.moves_to_go[1] > 1 THEN last.moves_to_go[1] ELSE 1)
                   ELSE CASE t < 30000 -> 15 [] t >= 30000 /\ t < 60000 -> 20
                          [] t >= 60000 /\ t < 180000 -> 25
                          [] t >= 180000 /\ t < 300000 -> 30
                          [] t >= 300000 /\ t < 600000 -> 35 [] OTHER -> 40
            cap == IF inc > 0 THEN t \div 2 + inc ELSE (3 * t) \div 10
            normal == t \div est + (9 * inc) \div 10
            crisis == IF t \div 30 < 50 THEN 50 ELSE IF t \div 30 > 500 THEN 500
                      ELSE t \div 30
            wanted == IF last.ret.in_crisis THEN crisis ELSE normal
            capped == IF wanted > cap THEN cap ELSE wanted
        IN  /\ last.ret.allocated <= last.ret.max_time
            /\ last.ret.allocated >= 10 /\ last.ret.max_time >= 10
            /\ last.ret.max_time = (IF cap < 10 THEN 10 ELSE cap)
            /\ last.ret.allocated = (IF capped < 10 THEN 10 ELSE capped)

\* a call in crisis whose 50 ms were cut down to max_time
C22_Witness ==
    /\ last.op = "calculate_time" /\ last.ret.in_crisis
    /\ last.ret.allocated < 50 /\ last.ret.allocated > 10
    /\ last.ret.allocated = last.ret.max_time

\* C27: with a clock-based time control and at least 10 ms on the own
\* clock, the time allocated for the move does not exceed the own clock.
C27_WithinOwnClock ==
    (/\ last.op = "TimeManager::new" /\ ClockBased(last.config)
     /\ OwnTime(last.config, last.color) # <<>>
     /\ OwnTime(last.config, last.color)[1] >= 10)
        => last.ret.allocated <= OwnTime(last.config, last.color)[1]

\* C23: within an iteration that is not cancelled the aspiration loop makes at
\* most 2 re-searches in each direction before a score is accepted
C23_TwoResearches == engine.fail_lows <= 2 /\ engine.fail_highs <= 2

\* the most re-searches one direction can take when every root score lies
\* between the least and the greatest of AspScores
AspBound == (Max(AspScores) - Min(AspScores) - ASPIRATION) \div (ASPIRATION * 2) + 1

\* C23, as the code has it: each re-search widens the failed side of the
\* window by 2 * ASPIRATION, so the window of an iteration after the first is
\* the guess widened once for each re-search, and the number of re-searches
\* in one direction is bounded by the spread of the root scores
C23_WidenedEachTime ==
    (engine.pc \in {"loop", "pvs", "scored"} /\ engine.d > 1) =>
        /\ engine.beta = engine.guess + ASPIRATION + engine.fail_highs * ASPIRATION * 2
        /\ engine.alpha = engine.guess - ASPIRATION - engine.fail_lows * ASPIRATION * 2
        /\ engine.fail_highs <= AspBound
        /\ engine.fail_lows <= AspBound

\* an iteration accepted after three re-searches in one direction
C23_Witness ==
    /\ engine.pc = "for"
    /\ engine.completed
    /\ engine.reached_depth > 1
    /\ ~StopFlagSet
    /\ engine.fail_highs = 3


\* C24: once no store call is in progress the slot is consistent: either no
\* store has written it, or its value and packed word are those of one single
\* store call, made with the key the slot holds
C24_SlotConsistent ==
    (\A t \in Threads : thr[t].pc = "idle") =>
        \/ tt.slot = RawDefault
        \/ \E st \in done.stores :
              /\ st.key = tt.slot.key
              /\ st.entry.value = tt.slot.value
              /\ packed_new(st.entry, tt.age) = tt.slot.packed


\* C29: the move best_move_timed returns after a completed iteration is the
\* packed move the root search stored as best, move kind included
C29_ReturnsRecordedMove ==
    (engine.pc = "idle" /\ ~engine.book /\ engine.completed /\ engine.root_best # NoneMove)
        => engine.best_move = engine.root_best


\* C30: get returns None for a key no store call was made with, on a new
\* table too and for the key 0; a hit is reported only for a key that some
\* store call wrote
C30_MissUnlessStored ==
    (last.op = "get" /\ last.ret # NoEntry) =>
        \E st \in done.stores : st.key = last.key

\* C26: the depth best_move_timed reports is at most the deepest iteration
\* that completed.  engine.d is the iteration that was running, or was next,
\* when the call returned: the iterations before it are the completed ones,
\* so a call stopped while iteration d runs reports d - 1.
C26_DepthCompleted ==
    (engine.pc = "idle" /\ ~engine.book /\ engine.result # NoAnswer)
        => engine.result.depth < engine.d


\* how many entries of hash_history are h
TimesIn(hash_history, h) ==
    Cardinality({i \in 1..Len(hash_history) : hash_history[i] = h})

StoreReturns == {"cutoff", "searched"}

\* a frame of pvs has just stored and returned, the flag being set
StoredWhenStopped ==
    /\ last.op = "return"
    /\ last.fn = "pvs"
    /\ last.how \in StoreReturns
    /\ last.stopped

====
